---- MODULE Spec2Model ----
(***************************************************************************)
(* Scroodle server: matchmaking queue, room store, round state machine,    *)
(* guess/advance resolution under optimistic transactions, user-room index *)
(* and the periodic sweeps.  Every redis call of a handler is one step of  *)
(* the process that runs the handler; a WATCH/MULTI/EXEC transaction is a  *)
(* read step followed by an exec step that fails when the watched key was *)
(* written in between.                                                     *)
(***************************************************************************)
EXTENDS Integers, Sequences, FiniteSets, TLC

\* ------------------------------------------------------------ bounds
MaxTime == 2            \* the clock runs over 1..MaxTime (ticks)
MaxReqs == 2            \* requests accepted in a behaviour that starts with a room
MaxMatchReqs == 3       \* requests accepted in a behaviour that starts with no room
MaxApiReqs == 2         \* requests accepted in a behaviour where every message is observed
MaxIdLen == 2           \* characters in a post id, a room id, a user id
MaxRetryReqs == 6       \* requests accepted in a behaviour that exhausts the retries
MaxViewReqs == 2        \* requests accepted in a behaviour with a viewer's page
MaxRoundReqs == 2       \* requests accepted in a behaviour of a three-round game
MaxIndexReqs == 3       \* requests accepted in a behaviour that follows the index writes

\* ------------------------------------------------------------ constants
MAX_QUEUE_TRANSACTION_RETRIES == 5
GuessAward == 10
DrawerAward == 3

Users == {"u1", "u2", "u3"}
RoomSeq == <<"r1", "r2">>      \* room ids in the order they are generated
RoomIds == {RoomSeq[i] : i \in 1..2}
NoUser == "none"
NoRoomId == "none"
Cron == "cron"
Procs == Users \cup {Cron}

\* The word pool (lower-case words) and the texts a client may submit.
WORDS == {<<"a">>, <<"b">>}
NoWord == <<>>
GuessTexts == {<<"A">>, <<" ", "b", " ">>, <<" ">>}

\* the values the settings take: roundsPerGame, and roundTimeSec in ticks
RoundsPerGame == {1, 2}
RoundTimes == {1}
QuickStarts == {1}
InactiveKicks == {1}
MaxPlayersCfg == {2, 4}
MinPlayersCfg == {2, 3}

\* ------------------------------------------------------------ strings
ToLowerChar(c) == CASE c = "A" -> "a" [] c = "B" -> "b" [] c = "C" -> "c" [] OTHER -> c

toLowerCase(s) == [i \in 1..Len(s) |-> ToLowerChar(s[i])]

RECURSIVE trimStart(_)
trimStart(s) == IF s # <<>> /\ Head(s) = " " THEN trimStart(Tail(s)) ELSE s

RECURSIVE trimEnd(_)
trimEnd(s) == IF s # <<>> /\ s[Len(s)] = " " THEN trimEnd(SubSeq(s, 1, Len(s) - 1)) ELSE s

trim(s) == trimEnd(trimStart(s))

slice(s, n) == SubSeq(s, 1, IF Len(s) < n THEN Len(s) ELSE n)

\* text = textRaw.trim().slice(0, 80)
guessText(textRaw) == slice(trim(textRaw), 80)

\* isCorrect: typeof room.word === "string" && text.toLowerCase() === room.word.toLowerCase()
isCorrectGuess(text, word) == word # NoWord /\ toLowerCase(text) = toLowerCase(word)

\* ------------------------------------------------------------ sequences
\* Array.prototype.indexOf, 0-based, -1 when absent
RECURSIVE indexOfFrom(_, _, _)
indexOfFrom(seq, x, i) ==
    IF i > Len(seq) THEN -1
    ELSE IF seq[i] = x THEN i - 1 ELSE indexOfFrom(seq, x, i + 1)

indexOf(seq, x) == indexOfFrom(seq, x, 1)

RECURSIVE filterOut(_, _)
filterOut(seq, x) ==
    IF seq = <<>> THEN <<>>
    ELSE IF Head(seq) = x THEN filterOut(Tail(seq), x)
         ELSE <<Head(seq)>> \o filterOut(Tail(seq), x)

includes(seq, x) == \E i \in 1..Len(seq) : seq[i] = x

\* ------------------------------------------------------------ state
VARIABLES
    now,        \* Date.now(), in ticks
    cfg,        \* the subreddit settings
    queue,      \* the value of the queue key: QueueEntry[]
    rooms,      \* the room keys: roomId -> RoomState, for the stored rooms
    roomIndex,  \* the "rooms" key: the roomIds of the room index
    userRooms,  \* the "userRooms" key: userId -> roomId
    usedIds,    \* the roomIds crypto.randomUUID has produced
    pc,         \* each request handler's position
    loc,        \* each request handler's local variables
    out,        \* what the last step sent: realtime messages and the response
    tracked,    \* the tracked-posts registry holds this post
    obs,        \* the kinds of message that out records
    words,      \* getWordPool(): the active word pool pickWord draws from
    budget,     \* the number of requests a behaviour accepts
    reqs,       \* the number of requests accepted so far
    awarded,    \* per round: correct-guess commits by submissions judged in it
    client      \* a viewer's page in a room: its refs, its state, what is in flight to it

vars == <<now, cfg, queue, rooms, roomIndex, userRooms, usedIds, pc, loc, out, tracked,
          obs, words, budget, reqs, awarded, client>>

\* an unset RoomState local
NoSnap == [roomId |-> NoRoomId]

\* the key a transaction watches; Dirty once the key was written after the WATCH
NoKey == "nokey"
Dirty == "dirty"
QueueKey == "queue"

LocInit == [room |-> NoRoomId, snap |-> NoSnap, watch |-> NoKey, attempt |-> 0,
            judged |-> 0, t |-> 0, at |-> 0, todo |-> <<>>, rids |-> <<>>,
            picked |-> <<>>, remaining |-> <<>>, idx |-> {}]

\* ------------------------------------------------------------ room helpers
\* roundSeconds = Math.max(20, roundTimeSec), in ticks
roundSeconds == cfg.roundTimeSec

\* withRoomDefaults: stored rooms always carry guessedCorrectUserIds and maxRounds >= 1
withRoomDefaults(room) ==
    IF room.maxRounds < 1 THEN [room EXCEPT !.maxRounds = 3] ELSE room

removePlayer(players, u) == [p \in (DOMAIN players) \ {u} |-> players[p]]

\* advanceOrEndRound, up to its saveRoom: the room it stores
advanceOrEnd_Late(room, t, w) ==
    IF room.roundNumber > room.maxRounds
    THEN [room EXCEPT !.status = "ended", !.word = NoWord, !.drawerUserId = NoUser,
                      !.roundEndsAt = 0, !.roundResolvedAt = t, !.updatedAt = t]
    ELSE LET cur == IF room.drawerUserId = NoUser THEN room.order[1] ELSE room.drawerUserId
             idx == indexOf(room.order, cur)
             nextDrawer == room.order[((idx + 1) % Len(room.order)) + 1]
         IN [room EXCEPT !.roundNumber = @ + 1, !.drawerUserId = nextDrawer, !.word = w,
                         !.roundEndsAt = t + roundSeconds, !.roundResolvedAt = 0,
                         !.guessedCorrectUserIds = <<>>, !.updatedAt = t]

advanceOrEnd_Early(room, t, w) ==
    IF room.roundNumber + 1 >= room.maxRounds
    THEN [room EXCEPT !.status = "ended", !.word = NoWord, !.drawerUserId = NoUser,
                      !.roundEndsAt = 0, !.roundResolvedAt = t, !.updatedAt = t]
    ELSE LET cur == IF room.drawerUserId = NoUser THEN room.order[1] ELSE room.drawerUserId
             idx == indexOf(room.order, cur)
             nextDrawer == room.order[((idx + 1) % Len(room.order)) + 1]
         IN [room EXCEPT !.roundNumber = @ + 1, !.drawerUserId = nextDrawer, !.word = w,
                         !.roundEndsAt = t + roundSeconds, !.roundResolvedAt = 0,
                         !.guessedCorrectUserIds = <<>>, !.updatedAt = t]

advanceOrEnd_SameDrawer(room, t, w) ==
    IF room.roundNumber >= room.maxRounds
    THEN [room EXCEPT !.status = "ended", !.word = NoWord, !.drawerUserId = NoUser,
                      !.roundEndsAt = 0, !.roundResolvedAt = t, !.updatedAt = t]
    ELSE LET cur == IF room.drawerUserId = NoUser THEN room.order[1] ELSE room.drawerUserId
             idx == indexOf(room.order, cur)
             nextDrawer == room.order[((idx + 1) % Len(room.order)) + 1]
         IN [room EXCEPT !.roundNumber = @ + 1, !.drawerUserId = cur, !.word = w,
                         !.roundEndsAt = t + roundSeconds, !.roundResolvedAt = 0,
                         !.guessedCorrectUserIds = <<>>, !.updatedAt = t]

advanceOrEnd_KeepWord(room, t, w) ==
    IF room.roundNumber >= room.maxRounds
    THEN [room EXCEPT !.status = "ended", !.drawerUserId = NoUser,
                      !.roundEndsAt = 0, !.roundResolvedAt = t, !.updatedAt = t]
    ELSE LET cur == IF room.drawerUserId = NoUser THEN room.order[1] ELSE room.drawerUserId
             idx == indexOf(room.order, cur)
             nextDrawer == room.order[((idx + 1) % Len(room.order)) + 1]
         IN [room EXCEPT !.roundNumber = @ + 1, !.drawerUserId = nextDrawer, !.word = w,
                         !.roundEndsAt = t + roundSeconds, !.roundResolvedAt = 0,
                         !.guessedCorrectUserIds = <<>>, !.updatedAt = t]

advanceOrEnd(room, t, w) ==
    IF room.roundNumber >= room.maxRounds
    THEN [room EXCEPT !.status = "ended", !.word = NoWord, !.drawerUserId = NoUser,
                      !.roundEndsAt = 0, !.roundResolvedAt = t, !.updatedAt = t]
    ELSE LET cur == IF room.drawerUserId = NoUser THEN room.order[1] ELSE room.drawerUserId
             idx == indexOf(room.order, cur)
             nextDrawer == room.order[((idx + 1) % Len(room.order)) + 1]
         IN [room EXCEPT !.roundNumber = @ + 1, !.drawerUserId = nextDrawer, !.word = w,
                         !.roundEndsAt = t + roundSeconds, !.roundResolvedAt = 0,
                         !.guessedCorrectUserIds = <<>>, !.updatedAt = t]

\* the award on the transaction's local copy of the room
award_ScoreOnly(room, u, t) ==
    LET d == room.drawerUserId
        p1 == [room.players EXCEPT ![u].score = @ + GuessAward]
        p2 == IF d # NoUser /\ d \in DOMAIN p1
              THEN [p1 EXCEPT ![d].score = @ + DrawerAward] ELSE p1
    IN [room EXCEPT !.updatedAt = t, !.players = p2]

award_NoDrawer(room, u, t) ==
    [room EXCEPT !.roundResolvedAt = t, !.updatedAt = t,
                 !.guessedCorrectUserIds = Append(@, u),
                 !.players = [room.players EXCEPT ![u].score = @ + GuessAward]]

award(room, u, t) ==
    LET d == room.drawerUserId
        p1 == [room.players EXCEPT ![u].score = @ + GuessAward]
        p2 == IF d # NoUser /\ d \in DOMAIN p1
              THEN [p1 EXCEPT ![d].score = @ + DrawerAward] ELSE p1
    IN [room EXCEPT !.roundResolvedAt = t, !.updatedAt = t,
                    !.guessedCorrectUserIds = Append(@, u), !.players = p2]

\* the RoomState maybeStartMatchForPost builds from the picked queue entries
newRoom(roomId, picked, t, w, maxRounds) ==
    [roomId |-> roomId, status |-> "playing", createdAt |-> t, updatedAt |-> t,
     players |-> [u \in {picked[i].userId : i \in 1..Len(picked)} |->
                    [score |-> 0,
                     lastSeen |-> picked[CHOOSE i \in 1..Len(picked) :
                                     /\ picked[i].userId = u
                                     /\ \A j \in 1..Len(picked) :
                                            picked[j].userId = u => j <= i].lastSeen]],
     order |-> [i \in 1..Len(picked) |-> picked[i].userId],
     roundNumber |-> 1, maxRounds |-> maxRounds,
     drawerUserId |-> picked[1].userId, word |-> w,
     roundEndsAt |-> t + roundSeconds, roundResolvedAt |-> 0,
     guessedCorrectUserIds |-> <<>>]

\* the characters /[A-Za-z]/ matches, among those the model uses
Letters == {"a", "b", "c", "m", "o", "r", "u", "A", "B", "C", "Z"}

\* word.replace(/[A-Za-z]/g, "_")
maskWord(word) == [i \in 1..Len(word) |-> IF word[i] \in Letters THEN "_" ELSE word[i]]

\* the characters /[0-9]/ matches, among those the model uses
Digits == {"0", "7"}

safe_Strip(s) == SelectSeq(s, LAMBDA c : c \in Letters \cup Digits \cup {"_"})

\* s.replace(/[^a-zA-Z0-9_]/g, "_")
safe(s) == [i \in 1..Len(s) |-> IF s[i] \in Letters \cup Digits \cup {"_"} THEN s[i] ELSE "_"]

\* safe(`room-${postId}-${roomId}`)
roomChannel(postId, roomId) == safe(<<"r", "o", "o", "m", "-">> \o postId \o <<"-">> \o roomId)

\* safe(`u-${postId}-${userId}`)
userChannel(postId, userId) == safe(<<"u", "-">> \o postId \o <<"-">> \o userId)

\* Object.values(room.players): the members in the order they were inserted
playerValues(room) ==
    LET members == SelectSeq(room.order, LAMBDA u : u \in DOMAIN room.players)
    IN [i \in 1..Len(members) |->
           [userId |-> members[i], score |-> room.players[members[i]].score,
            lastSeen |-> room.players[members[i]].lastSeen]]

\* one insertion of the stable sort((a, b) => b.score - a.score)
insertByScore(sorted, e) ==
    LET n == Cardinality({i \in 1..Len(sorted) : sorted[i].score >= e.score})
    IN SubSeq(sorted, 1, n) \o <<e>> \o SubSeq(sorted, n + 1, Len(sorted))

RECURSIVE sortByScoreFrom(_, _)
sortByScoreFrom(sorted, rest) ==
    IF rest = <<>> THEN sorted
    ELSE sortByScoreFrom(insertByScore(sorted, Head(rest)), Tail(rest))

sortByScore(ps) == sortByScoreFrom(<<>>, ps)

NotAViewer == "not-a-viewer"

isDrawer_Member(room, viewerId) == viewerId \in DOMAIN room.players

\* const isDrawer = room.drawerUserId === viewerId
isDrawer(room, viewerId) == room.drawerUserId = viewerId

publicState_WordForAll(room, viewerId) ==
    [roomId |-> room.roomId, status |-> room.status, createdAt |-> room.createdAt,
     updatedAt |-> room.updatedAt, players |-> sortByScore(playerValues(room)),
     drawerUserId |-> room.drawerUserId, roundEndsAt |-> room.roundEndsAt,
     roundNumber |-> room.roundNumber, maxRounds |-> room.maxRounds,
     wordMask |-> IF room.word # NoWord THEN maskWord(room.word) ELSE NoWord,
     word |-> room.word]

\* the RoomPublicState a viewer gets; an absent word is NoWord
publicState(room, viewerId) ==
    [roomId |-> room.roomId, status |-> room.status, createdAt |-> room.createdAt,
     updatedAt |-> room.updatedAt, players |-> sortByScore(playerValues(room)),
     drawerUserId |-> room.drawerUserId, roundEndsAt |-> room.roundEndsAt,
     roundNumber |-> room.roundNumber, maxRounds |-> room.maxRounds,
     wordMask |-> IF room.word # NoWord THEN maskWord(room.word) ELSE NoWord,
     word |-> IF isDrawer(room, viewerId) THEN room.word ELSE NoWord]

\* the messages of a step
Resp(u, code) == [type |-> "response", to |-> u, code |-> code]
RoundEnded(r, reason) == [type |-> "round-ended", room |-> r, reason |-> reason]
Chat(r, u, correct) == [type |-> "chat", room |-> r, from |-> u, correct |-> correct]
\* res.json({ ok: true }) where a transaction finds nothing left to resolve
Skipped(u, r, handler) == [type |-> "skipped", to |-> u, room |-> r, handler |-> handler]
\* res.json({ ok: true }) after the last attempt lost its exec
Exhausted(u, r, handler) == [type |-> "exhausted", to |-> u, room |-> r, handler |-> handler]

\* broadcastRoomState: the message on the room's channel
RoomStateMsg(room) == [type |-> "room-state", room |-> room.roomId,
                       state |-> publicState(room, NotAViewer)]
NoState == [roomId |-> NoRoomId]
\* the answer of GET /api/room/:roomId/state
StateResponse(u, r, code, state) ==
    [type |-> "state-response", to |-> u, room |-> r, code |-> code, state |-> state]
\* the answer of POST draw and POST clear
DrawerResponse(u, r, handler, code) ==
    [type |-> "drawer-response", to |-> u, room |-> r, handler |-> handler, code |-> code]
DrawMsg(r, u, n) == [type |-> "draw", room |-> r, from |-> u, points |-> n]
CanvasClearMsg(r, u) == [type |-> "canvas-clear", room |-> r, from |-> u]

\* no page is open
NoClient == [roomId |-> NoRoomId]

\* connectChannel: the room-state messages sent on the channel of the page's room are in
\* flight to its onMessage
onChannel(c, msgs) ==
    IF c.roomId = NoRoomId THEN c
    ELSE [c EXCEPT !.channel = @ \cup {m \in msgs : m.type = "room-state" /\ m.room = c.roomId}]

\* realtime.send and res.json of a step, as far as they are observed
Emit(msgs) ==
    /\ out' = {m \in msgs : m.type \in obs}
    /\ client' = onChannel(client, msgs)

\* a handler that goes on after its first read
Accept == reqs < budget /\ reqs' = reqs + 1

\* a write to key k fails every transaction that watches it
Unwatch(l, k) ==
    [p \in Procs |-> IF l[p].watch = k THEN [l[p] EXCEPT !.watch = Dirty] ELSE l[p]]

\* tryExec: the transaction commits unless its watched key was written since the WATCH
retriesLeft_Always(attempt) == TRUE

\* for (let attempt = 0; attempt < MAX_QUEUE_TRANSACTION_RETRIES; attempt++): another
\* attempt follows a lost one
retriesLeft(attempt) == attempt + 1 < MAX_QUEUE_TRANSACTION_RETRIES

tryExec_Always(l, p, k) == TRUE

tryExec(l, p, k) == l[p].watch = k

Finish(self, l) == [l EXCEPT ![self] = LocInit]

\* saveRoom: the room key and the room index
saveRoom(room) ==
    /\ rooms' = [r \in (DOMAIN rooms) \cup {room.roomId} |->
                    IF r = room.roomId THEN room ELSE rooms[r]]
    /\ roomIndex' = roomIndex \cup {room.roomId}

\* deleteRoom: the room key and the room index
deleteRoom(r) ==
    /\ rooms' = [q \in (DOMAIN rooms) \ {r} |-> rooms[q]]
    /\ roomIndex' = roomIndex \ {r}

\* setUserRoom, as its transaction commits it
setUserRoom(u, r) == userRooms' = [userRooms EXCEPT ![u] = r]

Bump(a, n) == [a EXCEPT ![n] = IF @ < 2 THEN @ + 1 ELSE @]

\* ------------------------------------------------------------ POST /api/room/:roomId/guess
guessForbidden_MembersOnly(room, u) == u \notin DOMAIN room.players

\* the two 403 gates: not in this room, drawer cannot guess
guessForbidden(room, u) == u \notin DOMAIN room.players \/ room.drawerUserId = u

GuessStart(u, r, textRaw) ==
    /\ pc[u] = "idle"
    /\ UNCHANGED <<now, cfg, queue, rooms, roomIndex, userRooms, usedIds, awarded, tracked, obs, words, budget>>
    /\ IF r \notin DOMAIN rooms
       THEN /\ Emit({Resp(u, 404)})
            /\ UNCHANGED <<pc, loc, reqs>>
       ELSE LET room == withRoomDefaults(rooms[r])
                text == guessText(textRaw)
                ok == isCorrectGuess(text, room.word)
            IN IF guessForbidden(room, u)
               THEN /\ Emit({Resp(u, 403)})
                    /\ UNCHANGED <<pc, loc, reqs>>
               ELSE IF room.status # "playing"
               THEN /\ Emit({Resp(u, 400)})
                    /\ UNCHANGED <<pc, loc, reqs>>
               ELSE IF text = <<>>
               THEN /\ Emit({Resp(u, 200)})
                    /\ UNCHANGED <<pc, loc, reqs>>
               ELSE IF ~ok
               THEN /\ Emit({Chat(r, u, FALSE), Resp(u, 200)})
                    /\ UNCHANGED <<pc, loc, reqs>>
               ELSE /\ Emit({Chat(r, u, TRUE)})
                    /\ Accept
                    /\ pc' = [pc EXCEPT ![u] = "guess_txn"]
                    /\ loc' = [loc EXCEPT ![u] = [LocInit EXCEPT !.room = r,
                                                    !.judged = room.roundNumber]]

\* one attempt of the loop: WATCH, loadRoom, the gates, the award on the local copy
GuessTxn(u) ==
    /\ pc[u] = "guess_txn"
    /\ UNCHANGED <<now, cfg, queue, rooms, roomIndex, userRooms, usedIds, awarded, tracked, obs, words, budget, reqs>>
    /\ LET r == loc[u].room IN
       IF r \notin DOMAIN rooms
       THEN /\ Emit({Resp(u, 404)})
            /\ pc' = [pc EXCEPT ![u] = "idle"]
            /\ loc' = Finish(u, loc)
       ELSE LET latestRoom == withRoomDefaults(rooms[r]) IN
            IF guessForbidden(latestRoom, u)
            THEN /\ Emit({Resp(u, 403)})
                 /\ pc' = [pc EXCEPT ![u] = "idle"]
                 /\ loc' = Finish(u, loc)
            ELSE IF \/ latestRoom.status # "playing"
                    \/ latestRoom.roundResolvedAt # 0
                    \/ includes(latestRoom.guessedCorrectUserIds, u)
            THEN /\ Emit({Skipped(u, r, "guess"), Resp(u, 200)})
                 /\ pc' = [pc EXCEPT ![u] = "idle"]
                 /\ loc' = Finish(u, loc)
            ELSE /\ Emit({})
                 /\ pc' = [pc EXCEPT ![u] = "guess_exec"]
                 /\ loc' = [loc EXCEPT ![u].watch = r, ![u].snap = award(latestRoom, u, now)]

\* txn.multi(); txn.set(key, latestRoom); tryExec(txn)
GuessExec(u) ==
    /\ pc[u] = "guess_exec"
    /\ UNCHANGED <<now, cfg, queue, roomIndex, userRooms, usedIds, tracked, obs, words, budget, reqs>>
    /\ LET r == loc[u].room IN
       IF tryExec(loc, u, r)
       THEN /\ rooms' = [rooms EXCEPT ![r] = loc[u].snap]
            /\ awarded' = Bump(awarded, loc[u].judged)
            /\ pc' = [pc EXCEPT ![u] = "guess_adv"]
            /\ loc' = [Unwatch(loc, r) EXCEPT ![u].watch = NoKey]
            /\ Emit({})
       ELSE /\ UNCHANGED <<rooms, awarded>>
            /\ IF retriesLeft(loc[u].attempt)
               THEN /\ pc' = [pc EXCEPT ![u] = "guess_txn"]
                    /\ loc' = [loc EXCEPT ![u].attempt = @ + 1, ![u].watch = NoKey,
                                          ![u].snap = NoSnap]
                    /\ Emit({})
               ELSE /\ pc' = [pc EXCEPT ![u] = "idle"]
                    /\ loc' = Finish(u, loc)
                    /\ Emit({Exhausted(u, loc[u].room, "guess"), Resp(u, 200)})

\* round-ended(guessed), then advanceOrEndRound(postId, resolvedRoom)
GuessAdvance(u, w) ==
    /\ pc[u] = "guess_adv"
    /\ UNCHANGED <<now, cfg, queue, userRooms, usedIds, awarded, tracked, obs, words, budget, reqs>>
    /\ saveRoom(advanceOrEnd(loc[u].snap, now, w))
    /\ Emit({RoundEnded(loc[u].room, "guessed"),
             RoomStateMsg(advanceOrEnd(loc[u].snap, now, w)), Resp(u, 200)})
    /\ pc' = [pc EXCEPT ![u] = "idle"]
    /\ loc' = Finish(u, Unwatch(loc, loc[u].room))

\* ------------------------------------------------------------ POST /api/room/:roomId/advance
AdvanceStart(u, r) ==
    /\ pc[u] = "idle"
    /\ UNCHANGED <<now, cfg, queue, rooms, roomIndex, userRooms, usedIds, awarded, tracked, obs, words, budget>>
    /\ IF r \notin DOMAIN rooms
       THEN /\ Emit({Resp(u, 404)})
            /\ UNCHANGED <<pc, loc, reqs>>
       ELSE LET room == withRoomDefaults(rooms[r]) IN
            IF u \notin DOMAIN room.players
            THEN /\ Emit({Resp(u, 403)})
                 /\ UNCHANGED <<pc, loc, reqs>>
            ELSE IF room.status # "playing"
            THEN /\ Emit({Resp(u, 200)})
                 /\ UNCHANGED <<pc, loc, reqs>>
            ELSE /\ Emit({})
                 /\ Accept
                 /\ pc' = [pc EXCEPT ![u] = "adv_txn"]
                 /\ loc' = [loc EXCEPT ![u] = [LocInit EXCEPT !.room = r]]

\* the gates of the advance transaction that answer { ok: true } and change nothing
nothingToAdvance_Unresolved(room, t) ==
    \/ room.status # "playing"
    \/ (room.roundEndsAt # 0 /\ t < room.roundEndsAt)

nothingToAdvance_NoDeadline(room, t) ==
    \/ room.status # "playing"
    \/ room.roundResolvedAt # 0

nothingToAdvance(room, t) ==
    \/ room.status # "playing"
    \/ room.roundResolvedAt # 0
    \/ (room.roundEndsAt # 0 /\ t < room.roundEndsAt)

\* one attempt of the loop: WATCH, loadRoom, the gates, the deadline
AdvanceTxn(u) ==
    /\ pc[u] = "adv_txn"
    /\ UNCHANGED <<now, cfg, queue, rooms, roomIndex, userRooms, usedIds, awarded, tracked, obs, words, budget, reqs>>
    /\ LET r == loc[u].room IN
       IF r \notin DOMAIN rooms
       THEN /\ Emit({Resp(u, 404)})
            /\ pc' = [pc EXCEPT ![u] = "idle"]
            /\ loc' = Finish(u, loc)
       ELSE LET latestRoom == withRoomDefaults(rooms[r]) IN
            IF u \notin DOMAIN latestRoom.players
            THEN /\ Emit({Resp(u, 403)})
                 /\ pc' = [pc EXCEPT ![u] = "idle"]
                 /\ loc' = Finish(u, loc)
            ELSE IF nothingToAdvance(latestRoom, now)
            THEN /\ Emit({Skipped(u, r, "advance"), Resp(u, 200)})
                 /\ pc' = [pc EXCEPT ![u] = "idle"]
                 /\ loc' = Finish(u, loc)
            ELSE /\ Emit({})
                 /\ pc' = [pc EXCEPT ![u] = "adv_exec"]
                 /\ loc' = [loc EXCEPT ![u].watch = r,
                              ![u].snap = [latestRoom EXCEPT !.roundResolvedAt = now,
                                                             !.updatedAt = now]]

AdvanceExec(u) ==
    /\ pc[u] = "adv_exec"
    /\ UNCHANGED <<now, cfg, queue, roomIndex, userRooms, usedIds, awarded, tracked, obs, words, budget, reqs>>
    /\ LET r == loc[u].room IN
       IF tryExec(loc, u, r)
       THEN /\ rooms' = [rooms EXCEPT ![r] = loc[u].snap]
            /\ pc' = [pc EXCEPT ![u] = "adv_adv"]
            /\ loc' = [Unwatch(loc, r) EXCEPT ![u].watch = NoKey]
            /\ Emit({})
       ELSE /\ UNCHANGED rooms
            /\ IF retriesLeft(loc[u].attempt)
               THEN /\ pc' = [pc EXCEPT ![u] = "adv_txn"]
                    /\ loc' = [loc EXCEPT ![u].attempt = @ + 1, ![u].watch = NoKey,
                                          ![u].snap = NoSnap]
                    /\ Emit({})
               ELSE /\ pc' = [pc EXCEPT ![u] = "idle"]
                    /\ loc' = Finish(u, loc)
                    /\ Emit({Exhausted(u, loc[u].room, "advance"), Resp(u, 200)})

\* round-ended(time), then advanceOrEndRound(postId, resolvedRoom)
AdvanceAdvance(u, w) ==
    /\ pc[u] = "adv_adv"
    /\ UNCHANGED <<now, cfg, queue, userRooms, usedIds, awarded, tracked, obs, words, budget, reqs>>
    /\ saveRoom(advanceOrEnd(loc[u].snap, now, w))
    /\ Emit({RoundEnded(loc[u].room, "time"),
             RoomStateMsg(advanceOrEnd(loc[u].snap, now, w)), Resp(u, 200)})
    /\ pc' = [pc EXCEPT ![u] = "idle"]
    /\ loc' = Finish(u, Unwatch(loc, loc[u].room))

\* ------------------------------------------------------------ POST /api/room/:roomId/leave
LeaveStart(u, r) ==
    /\ pc[u] = "idle"
    /\ UNCHANGED <<now, cfg, queue, rooms, roomIndex, userRooms, usedIds, awarded, tracked, obs, words, budget>>
    /\ Emit({})
    /\ IF r \notin DOMAIN rooms
       THEN /\ Accept
            /\ pc' = [pc EXCEPT ![u] = "leave_gone"]
            /\ loc' = [loc EXCEPT ![u] = [LocInit EXCEPT !.room = r]]
       ELSE LET room == withRoomDefaults(rooms[r]) IN
            /\ Accept
            /\ pc' = [pc EXCEPT ![u] = "leave_unindex"]
            /\ loc' = [loc EXCEPT ![u] = [LocInit EXCEPT !.room = r,
                          !.snap = [room EXCEPT !.players = removePlayer(@, u),
                                                !.order = filterOut(@, u),
                                                !.updatedAt = now]]]

\* room.order.length < 2
notEnoughPlayers_One(room) == Len(room.order) < 1

notEnoughPlayers(room) == Len(room.order) < 2

\* the room is gone: setUserRoom(postId, userId, null)
LeaveGone(u) ==
    /\ pc[u] = "leave_gone"
    /\ UNCHANGED <<now, cfg, queue, rooms, roomIndex, usedIds, awarded, tracked, obs, words, budget, reqs>>
    /\ setUserRoom(u, NoRoomId)
    /\ Emit({Resp(u, 200)})
    /\ pc' = [pc EXCEPT ![u] = "idle"]
    /\ loc' = Finish(u, loc)

\* setUserRoom(postId, userId, null), the "left the room" message, and the branch
LeaveUnindex(u) ==
    /\ pc[u] = "leave_unindex"
    /\ UNCHANGED <<now, cfg, queue, rooms, roomIndex, usedIds, awarded, tracked, obs, words, budget, reqs>>
    /\ setUserRoom(u, NoRoomId)
    /\ LET room == loc[u].snap IN
       IF notEnoughPlayers(room)
       THEN /\ Emit({RoundEnded(room.roomId, "left")})
            /\ pc' = [pc EXCEPT ![u] = "leave_clear"]
            /\ loc' = [loc EXCEPT ![u].todo = room.order]
       ELSE IF room.drawerUserId = u /\ room.status = "playing"
       THEN /\ Emit({})
            /\ pc' = [pc EXCEPT ![u] = "leave_adv"]
            /\ UNCHANGED loc
       ELSE /\ Emit({})
            /\ pc' = [pc EXCEPT ![u] = "leave_save"]
            /\ UNCHANGED loc

\* for (const id of room.order) setUserRoom(postId, id, null)
LeaveClear(u) ==
    /\ pc[u] = "leave_clear"
    /\ loc[u].todo # <<>>
    /\ UNCHANGED <<now, cfg, queue, rooms, roomIndex, usedIds, awarded, pc, tracked, obs, words, budget, reqs>>
    /\ setUserRoom(Head(loc[u].todo), NoRoomId)
    /\ loc' = [loc EXCEPT ![u].todo = Tail(@)]
    /\ Emit({})

LeaveDelete(u) ==
    /\ pc[u] = "leave_clear"
    /\ loc[u].todo = <<>>
    /\ UNCHANGED <<now, cfg, queue, userRooms, usedIds, awarded, tracked, obs, words, budget, reqs>>
    /\ deleteRoom(loc[u].room)
    /\ Emit({Resp(u, 200)})
    /\ pc' = [pc EXCEPT ![u] = "idle"]
    /\ loc' = Finish(u, Unwatch(loc, loc[u].room))

\* the drawer left mid-round: round-ended(left), roundResolvedAt, advanceOrEndRound
LeaveAdvance(u, w) ==
    /\ pc[u] = "leave_adv"
    /\ UNCHANGED <<now, cfg, queue, userRooms, usedIds, awarded, tracked, obs, words, budget, reqs>>
    /\ saveRoom(advanceOrEnd([loc[u].snap EXCEPT !.roundResolvedAt = now], now, w))
    /\ Emit({RoundEnded(loc[u].room, "left"),
             RoomStateMsg(advanceOrEnd([loc[u].snap EXCEPT !.roundResolvedAt = now], now, w)),
             Resp(u, 200)})
    /\ pc' = [pc EXCEPT ![u] = "idle"]
    /\ loc' = Finish(u, Unwatch(loc, loc[u].room))

LeaveSave(u) ==
    /\ pc[u] = "leave_save"
    /\ UNCHANGED <<now, cfg, queue, userRooms, usedIds, awarded, tracked, obs, words, budget, reqs>>
    /\ saveRoom(loc[u].snap)
    /\ Emit({RoomStateMsg(loc[u].snap), Resp(u, 200)})
    /\ pc' = [pc EXCEPT ![u] = "idle"]
    /\ loc' = Finish(u, Unwatch(loc, loc[u].room))

\* ------------------------------------------------------------ POST /api/ping
PingStart(u) ==
    /\ pc[u] = "idle"
    /\ UNCHANGED <<now, cfg, queue, rooms, roomIndex, userRooms, usedIds, awarded, tracked, obs, words, budget>>
    /\ IF userRooms[u] = NoRoomId
       THEN /\ Emit({Resp(u, 200)})
            /\ UNCHANGED <<pc, loc, reqs>>
       ELSE /\ Emit({})
            /\ Accept
            /\ pc' = [pc EXCEPT ![u] = "ping_load"]
            /\ loc' = [loc EXCEPT ![u] = [LocInit EXCEPT !.room = userRooms[u], !.t = now]]

PingLoad(u) ==
    /\ pc[u] = "ping_load"
    /\ UNCHANGED <<now, cfg, queue, rooms, roomIndex, userRooms, usedIds, awarded, tracked, obs, words, budget, reqs>>
    /\ LET r == loc[u].room IN
       IF r \in DOMAIN rooms /\ u \in DOMAIN rooms[r].players
       THEN /\ Emit({})
            /\ pc' = [pc EXCEPT ![u] = "ping_save"]
            /\ loc' = [loc EXCEPT ![u].snap =
                          [withRoomDefaults(rooms[r]) EXCEPT
                              !.players[u].lastSeen = loc[u].t, !.updatedAt = loc[u].t]]
       ELSE /\ Emit({Resp(u, 200)})
            /\ pc' = [pc EXCEPT ![u] = "idle"]
            /\ loc' = Finish(u, loc)

PingSave(u) ==
    /\ pc[u] = "ping_save"
    /\ UNCHANGED <<now, cfg, queue, userRooms, usedIds, awarded, tracked, obs, words, budget, reqs>>
    /\ saveRoom(loc[u].snap)
    /\ Emit({Resp(u, 200)})
    /\ pc' = [pc EXCEPT ![u] = "idle"]
    /\ loc' = Finish(u, Unwatch(loc, loc[u].room))

\* ------------------------------------------------------------ the clock
\* ------------------------------------------------------------ GET /api/room/:roomId/state
StateGet(u, r) ==
    /\ pc[u] = "idle"
    /\ UNCHANGED <<now, cfg, queue, rooms, roomIndex, userRooms, usedIds, pc, loc, awarded, tracked, obs, words, budget, reqs>>
    /\ IF r \notin DOMAIN rooms
       THEN Emit({StateResponse(u, r, 404, NoState)})
       ELSE LET room == withRoomDefaults(rooms[r]) IN
            IF u \notin DOMAIN room.players
            THEN Emit({StateResponse(u, r, 403, NoState)})
            ELSE Emit({StateResponse(u, r, 200, publicState(room, u))})

\* ------------------------------------------------------------ POST /api/room/:roomId/draw
notTheDrawer_NonMember(room, u) == u \notin DOMAIN room.players

\* room.drawerUserId !== userId
notTheDrawer(room, u) == room.drawerUserId # u

\* points.slice(0, 64).length
clippedLength(n) == IF n < 64 THEN n ELSE 64

Draw(u, r, n, endStroke) ==
    /\ pc[u] = "idle"
    /\ UNCHANGED <<now, cfg, queue, rooms, roomIndex, userRooms, usedIds, pc, loc, awarded, tracked, obs, words, budget, reqs>>
    /\ IF r \notin DOMAIN rooms
       THEN Emit({DrawerResponse(u, r, "draw", 404)})
       ELSE LET room == withRoomDefaults(rooms[r]) IN
            IF notTheDrawer(room, u)
            THEN Emit({DrawerResponse(u, r, "draw", 403)})
            ELSE IF clippedLength(n) >= 2 \/ endStroke
            THEN Emit({DrawMsg(r, u, clippedLength(n)), DrawerResponse(u, r, "draw", 200)})
            ELSE Emit({DrawerResponse(u, r, "draw", 200)})

\* ------------------------------------------------------------ POST /api/room/:roomId/clear
Clear(u, r) ==
    /\ pc[u] = "idle"
    /\ UNCHANGED <<now, cfg, queue, rooms, roomIndex, userRooms, usedIds, pc, loc, awarded, tracked, obs, words, budget, reqs>>
    /\ IF r \notin DOMAIN rooms
       THEN Emit({DrawerResponse(u, r, "clear", 404)})
       ELSE LET room == withRoomDefaults(rooms[r]) IN
            IF notTheDrawer(room, u)
            THEN Emit({DrawerResponse(u, r, "clear", 403)})
            ELSE Emit({CanvasClearMsg(r, u), DrawerResponse(u, r, "clear", 200)})

\* ------------------------------------------------------------ the clock
Tick ==
    /\ now < MaxTime
    /\ now' = now + 1
    /\ Emit({})
    /\ UNCHANGED <<cfg, queue, rooms, roomIndex, userRooms, usedIds, pc, loc, awarded, tracked, obs, words, budget, reqs>>

\* ------------------------------------------------------------ queue helpers
staleFilter(q, staleCutoff) == SelectSeq(q, LAMBDA e : e.lastSeen >= staleCutoff)

withoutUser_None(q, u) == q

withoutUser(q, u) == SelectSeq(q, LAMBDA e : e.userId # u)

\* queue.findIndex((q) => q.userId === userId), 1-based, 0 when absent
findIndex(q, u) ==
    IF \E i \in 1..Len(q) : q[i].userId = u
    THEN CHOOSE i \in 1..Len(q) : q[i].userId = u /\ \A j \in 1..(i - 1) : q[j].userId # u
    ELSE 0

\* queue.sort((a, b) => a.joinedAt - b.joinedAt): a stable sort
RECURSIVE insertSorted(_, _)
insertSorted(sorted, e) ==
    IF sorted = <<>> THEN <<e>>
    ELSE IF sorted[Len(sorted)].joinedAt <= e.joinedAt THEN Append(sorted, e)
         ELSE Append(insertSorted(SubSeq(sorted, 1, Len(sorted) - 1), e), sorted[Len(sorted)])

sortByJoinedAt_None(q) == q

RECURSIVE sortByJoinedAt(_)
sortByJoinedAt(q) ==
    IF q = <<>> THEN <<>>
    ELSE insertSorted(sortByJoinedAt(SubSeq(q, 1, Len(q) - 1)), q[Len(q)])

queueUpsert_Push(q, u, t, inactiveKickSeconds) ==
    sortByJoinedAt(Append(staleFilter(q, t - inactiveKickSeconds),
                          [userId |-> u, joinedAt |-> t, lastSeen |-> t]))

\* the queue queueUpsertAtomic writes
queueUpsert(q, u, t, inactiveKickSeconds) ==
    LET fresh == staleFilter(q, t - inactiveKickSeconds)
        idx == findIndex(fresh, u)
        next == IF idx > 0 THEN [fresh EXCEPT ![idx].lastSeen = t]
                ELSE Append(fresh, [userId |-> u, joinedAt |-> t, lastSeen |-> t])
    IN sortByJoinedAt(next)

Min2(a, b) == IF a < b THEN a ELSE b
Max2(a, b) == IF a > b THEN a ELSE b

\* the settings as tryMatchPickAtomic and maybeStartMatchForPost clamp them
maxPlayers == Min2(4, Max2(2, cfg.maxPlayers))
minPlayersToStart == Max2(2, cfg.minPlayersToStart)
quickStartSeconds == Max2(1, cfg.queueQuickStartSeconds)
inactiveKickSeconds == cfg.inactiveKickSeconds
maxRounds == Max2(1, cfg.roundsPerGame)

canStart_FullOnly(q, t) == Len(q) >= maxPlayers

canStart_NoWait(q, t) ==
    \/ Len(q) >= maxPlayers
    \/ Len(q) >= minPlayersToStart

canStart(q, t) ==
    \/ Len(q) >= maxPlayers
    \/ (Len(q) >= minPlayersToStart /\ t - q[1].joinedAt >= quickStartSeconds)

\* where maybeStartMatchForPost returns to: the join handler, or the sweep's end
Return(p) == IF p = Cron THEN "idle" ELSE "join_result"

ReturnLoc(p, l) == IF p = Cron THEN Finish(p, l)
                   ELSE [l EXCEPT ![p] = [LocInit EXCEPT !.room = NoRoomId]]

MatchFound(u, r) == [type |-> "match-found", to |-> u, room |-> r]

\* ------------------------------------------------------------ POST /api/matchmaking/join
\* getUserRoom; with no room, trackPost and now = Date.now()
JoinStart(u) ==
    /\ pc[u] = "idle"
    /\ Accept
    /\ UNCHANGED <<now, cfg, queue, rooms, roomIndex, userRooms, usedIds, awarded, obs, words, budget>>
    /\ Emit({})
    /\ IF userRooms[u] # NoRoomId
       THEN /\ pc' = [pc EXCEPT ![u] = "join_check"]
            /\ loc' = [loc EXCEPT ![u] = [LocInit EXCEPT !.room = userRooms[u]]]
            /\ UNCHANGED tracked
       ELSE /\ pc' = [pc EXCEPT ![u] = "join_upsert"]
            /\ loc' = [loc EXCEPT ![u] = [LocInit EXCEPT !.t = now]]
            /\ tracked' = TRUE

\* loadRoom(existing): answer matched when the room lists the caller
JoinCheck(u) ==
    /\ pc[u] = "join_check"
    /\ UNCHANGED <<now, cfg, queue, rooms, roomIndex, userRooms, usedIds, awarded, tracked,
                   obs, words, budget, reqs>>
    /\ LET r == loc[u].room IN
       IF r \in DOMAIN rooms /\ u \in DOMAIN rooms[r].players
       THEN /\ Emit({[type |-> "response", to |-> u, code |-> 200, status |-> "matched",
                      room |-> r]})
            /\ pc' = [pc EXCEPT ![u] = "idle"]
            /\ loc' = Finish(u, loc)
       ELSE /\ Emit({})
            /\ pc' = [pc EXCEPT ![u] = "join_heal"]
            /\ UNCHANGED loc

\* the stale mapping: setUserRoom(postId, userId, null); trackPost; now = Date.now()
JoinHeal(u) ==
    /\ pc[u] = "join_heal"
    /\ UNCHANGED <<now, cfg, queue, rooms, roomIndex, usedIds, awarded, obs, words, budget, reqs>>
    /\ setUserRoom(u, NoRoomId)
    /\ tracked' = TRUE
    /\ Emit({})
    /\ pc' = [pc EXCEPT ![u] = "join_upsert"]
    /\ loc' = [loc EXCEPT ![u] = [LocInit EXCEPT !.t = now]]

\* queueUpsertAtomic, as its transaction commits it
JoinUpsert(u) ==
    /\ pc[u] = "join_upsert"
    /\ UNCHANGED <<now, cfg, rooms, roomIndex, userRooms, usedIds, awarded, tracked, obs, words,
                   budget, reqs>>
    /\ queue' = queueUpsert(queue, u, loc[u].t, inactiveKickSeconds)
    /\ Emit({})
    /\ pc' = [pc EXCEPT ![u] = "ms_pick"]
    /\ loc' = [Unwatch(loc, QueueKey) EXCEPT ![u] = LocInit]

\* getUserRoom after maybeStartMatchForPost: matched or queued
JoinResult(u) ==
    /\ pc[u] = "join_result"
    /\ UNCHANGED <<now, cfg, queue, rooms, roomIndex, userRooms, usedIds, awarded, tracked,
                   obs, words, budget, reqs>>
    /\ Emit({[type |-> "response", to |-> u, code |-> 200,
              status |-> IF userRooms[u] # NoRoomId THEN "matched" ELSE "queued",
              room |-> userRooms[u]]})
    /\ pc' = [pc EXCEPT ![u] = "idle"]
    /\ loc' = Finish(u, loc)

\* ------------------------------------------------------------ POST /api/matchmaking/leave
\* queueRemoveUserAtomic, as its transaction commits it
QueueLeave(u) ==
    /\ pc[u] = "idle"
    /\ Accept
    /\ UNCHANGED <<now, cfg, rooms, roomIndex, userRooms, usedIds, awarded, tracked, obs, words,
                   budget, pc>>
    /\ queue' = withoutUser(queue, u)
    /\ Emit({Resp(u, 200)})
    /\ loc' = Unwatch(loc, QueueKey)

\* ------------------------------------------------------------ maybeStartMatchForPost
\* tryMatchPickAtomic, one attempt: WATCH, read, decide
MsPick(p) ==
    /\ pc[p] = "ms_pick"
    /\ UNCHANGED <<now, cfg, queue, rooms, roomIndex, userRooms, usedIds, awarded, tracked,
                   obs, words, budget, reqs>>
    /\ Emit({})
    /\ LET t == IF loc[p].attempt = 0 THEN now ELSE loc[p].t
           q == staleFilter(queue, t - inactiveKickSeconds)
       IN IF Len(q) < minPlayersToStart \/ ~canStart(q, t)
          THEN /\ pc' = [pc EXCEPT ![p] = Return(p)]
               /\ loc' = ReturnLoc(p, loc)
          ELSE LET n == Min2(maxPlayers, Len(q)) IN
               /\ pc' = [pc EXCEPT ![p] = "ms_exec"]
               /\ loc' = [loc EXCEPT ![p].t = t, ![p].watch = QueueKey,
                                     ![p].picked = SubSeq(q, 1, n),
                                     ![p].remaining = SubSeq(q, n + 1, Len(q))]

\* txn.set(queueKey, remaining); tryExec(txn)
MsExec(p) ==
    /\ pc[p] = "ms_exec"
    /\ UNCHANGED <<now, cfg, rooms, roomIndex, userRooms, usedIds, awarded, tracked, obs, words,
                   budget, reqs>>
    /\ Emit({})
    /\ IF tryExec(loc, p, QueueKey)
       THEN /\ queue' = loc[p].remaining
            /\ pc' = [pc EXCEPT ![p] = "ms_save"]
            /\ loc' = [Unwatch(loc, QueueKey) EXCEPT ![p].watch = NoKey,
                                                     ![p].remaining = <<>>]
       ELSE /\ UNCHANGED queue
            /\ IF retriesLeft(loc[p].attempt)
               THEN /\ pc' = [pc EXCEPT ![p] = "ms_pick"]
                    /\ loc' = [loc EXCEPT ![p].attempt = @ + 1, ![p].watch = NoKey,
                                          ![p].picked = <<>>, ![p].remaining = <<>>]
               ELSE /\ pc' = [pc EXCEPT ![p] = Return(p)]
                    /\ loc' = ReturnLoc(p, loc)

\* the room is built and saved: saveRoom(postId, room)
MsSave(p, rid, w) ==
    /\ pc[p] = "ms_save"
    /\ rid \notin usedIds
    /\ rid = RoomSeq[Cardinality(usedIds) + 1]
    /\ UNCHANGED <<now, cfg, queue, userRooms, awarded, tracked, obs, words, budget, reqs>>
    /\ saveRoom(newRoom(rid, loc[p].picked, now, w, maxRounds))
    /\ usedIds' = usedIds \cup {rid}
    /\ Emit({})
    /\ pc' = [pc EXCEPT ![p] = "ms_index"]
    /\ loc' = [loc EXCEPT ![p].room = rid,
                          ![p].snap = newRoom(rid, loc[p].picked, now, w, maxRounds),
                          ![p].todo = [i \in 1..Len(loc[p].picked) |-> loc[p].picked[i].userId]]

\* for (const p of picked) setUserRoom(postId, p.userId, roomId); after the last one the
\* room-state broadcast and the match-found messages, and back to the caller
MsIndex(p) ==
    /\ pc[p] = "ms_index"
    /\ loc[p].todo # <<>>
    /\ UNCHANGED <<now, cfg, queue, rooms, roomIndex, usedIds, awarded, tracked, obs, words, budget,
                   reqs>>
    /\ setUserRoom(Head(loc[p].todo), loc[p].room)
    /\ IF Tail(loc[p].todo) # <<>>
       THEN /\ loc' = [loc EXCEPT ![p].todo = Tail(@)]
            /\ UNCHANGED pc
            /\ Emit({})
       ELSE /\ Emit({RoomStateMsg(loc[p].snap)} \cup
                    {MatchFound(loc[p].picked[i].userId, loc[p].room) :
                        i \in 1..Len(loc[p].picked)})
            /\ pc' = [pc EXCEPT ![p] = Return(p)]
            /\ loc' = ReturnLoc(p, loc)

\* ------------------------------------------------------------ /internal/cron/mm-sweep
\* queueFilterStaleAtomic as its transaction commits it, then maybeStartMatchForPost
MmSweep ==
    /\ pc[Cron] = "idle"
    /\ tracked
    /\ Accept
    /\ UNCHANGED <<now, cfg, rooms, roomIndex, userRooms, usedIds, awarded, tracked, obs, words,
                   budget>>
    /\ queue' = staleFilter(queue, now - inactiveKickSeconds)
    /\ Emit({})
    /\ pc' = [pc EXCEPT ![Cron] = "ms_pick"]
    /\ loc' = [Unwatch(loc, QueueKey) EXCEPT ![Cron] = [LocInit EXCEPT !.at = now]]

\* ------------------------------------------------------------ /internal/cron/room-gc
\* inactiveForMs > 30 * 60 * 1000: a tick is longer than that
gcInactive_Always(room, t) == TRUE

gcInactive(room, t) == t - room.updatedAt > 0

RECURSIVE SeqsOf(_)
SeqsOf(S) == IF S = {} THEN {<<>>}
             ELSE UNION {{<<x>> \o rest : rest \in SeqsOf(S \ {x})} : x \in S}

\* loadTrackedPosts, now = Date.now(), loadRoomIndex
GcStart ==
    /\ pc[Cron] = "idle"
    /\ tracked
    /\ Accept
    /\ roomIndex # {}
    /\ UNCHANGED <<now, cfg, queue, rooms, roomIndex, userRooms, usedIds, awarded, tracked,
                   obs, words, budget>>
    /\ Emit({})
    /\ pc' = [pc EXCEPT ![Cron] = "gc_visit"]
    /\ \E ids \in SeqsOf(roomIndex) :
          loc' = [loc EXCEPT ![Cron] = [LocInit EXCEPT !.t = now, !.rids = ids]]

\* loadRoom(postId, roomId) and shouldDelete
GcVisit ==
    /\ pc[Cron] = "gc_visit"
    /\ loc[Cron].rids # <<>>
    /\ UNCHANGED <<now, cfg, queue, rooms, roomIndex, userRooms, usedIds, awarded, tracked,
                   obs, words, budget, reqs>>
    /\ Emit({})
    /\ LET r == Head(loc[Cron].rids) IN
       IF r \in DOMAIN rooms /\
          (Len(rooms[r].order) < 2 \/ gcInactive(rooms[r], loc[Cron].t))
       THEN /\ pc' = [pc EXCEPT ![Cron] = "gc_clear"]
            /\ loc' = [loc EXCEPT ![Cron].room = r, ![Cron].todo = rooms[r].order]
       ELSE /\ UNCHANGED pc
            /\ loc' = [loc EXCEPT ![Cron].rids = Tail(@)]

\* for (const id of room.order) setUserRoom(postId, id, null)
GcClear ==
    /\ pc[Cron] = "gc_clear"
    /\ loc[Cron].todo # <<>>
    /\ UNCHANGED <<now, cfg, queue, rooms, roomIndex, usedIds, awarded, tracked, obs, words, budget,
                   reqs, pc>>
    /\ setUserRoom(Head(loc[Cron].todo), NoRoomId)
    /\ loc' = [loc EXCEPT ![Cron].todo = Tail(@)]
    /\ Emit({})

GcDelete ==
    /\ pc[Cron] = "gc_clear"
    /\ loc[Cron].todo = <<>>
    /\ UNCHANGED <<now, cfg, queue, userRooms, usedIds, awarded, tracked, obs, words, budget, reqs>>
    /\ deleteRoom(loc[Cron].room)
    /\ Emit({})
    /\ pc' = [pc EXCEPT ![Cron] = "gc_visit"]
    /\ loc' = [Unwatch(loc, loc[Cron].room) EXCEPT ![Cron].room = NoRoomId,
                                                    ![Cron].rids = Tail(@)]

GcDone ==
    /\ pc[Cron] = "gc_visit"
    /\ loc[Cron].rids = <<>>
    /\ UNCHANGED <<now, cfg, queue, rooms, roomIndex, userRooms, usedIds, awarded, tracked,
                   obs, words, budget, reqs>>
    /\ Emit({})
    /\ pc' = [pc EXCEPT ![Cron] = "idle"]
    /\ loc' = Finish(Cron, loc)

\* ------------------------------------------------------------ resetLobby
\* loadRoomIndex, then redis.del of every indexed room key
ResetRooms ==
    /\ pc[Cron] = "idle"
    /\ Accept
    /\ UNCHANGED <<now, cfg, queue, roomIndex, userRooms, usedIds, awarded, tracked, obs, words,
                   budget>>
    /\ rooms' = [r \in (DOMAIN rooms) \ roomIndex |-> rooms[r]]
    /\ Emit({})
    /\ pc' = [pc EXCEPT ![Cron] = "reset_keys"]
    /\ loc' = [p \in Procs |-> IF loc[p].watch \in roomIndex
                               THEN [loc[p] EXCEPT !.watch = Dirty] ELSE loc[p]]

\* redis.del of the queue, the room index and the user-room index
ResetKeys ==
    /\ pc[Cron] = "reset_keys"
    /\ UNCHANGED <<now, cfg, rooms, usedIds, awarded, tracked, obs, words, budget, reqs>>
    /\ queue' = <<>>
    /\ roomIndex' = {}
    /\ userRooms' = [u \in Users |-> NoRoomId]
    /\ Emit({})
    /\ pc' = [pc EXCEPT ![Cron] = "idle"]
    /\ loc' = Finish(Cron, Unwatch(loc, QueueKey))

\* ------------------------------------------------------------ a room in play
\* the queue entries of a roster that joined at time 1
Entries(roster, t) == [i \in 1..Len(roster) |->
                         [userId |-> roster[i], joinedAt |-> t, lastSeen |-> t]]

Rosters == {<<"u1", "u2", "u3">>}

InitRoom ==
    /\ now = 1
    /\ cfg \in [maxPlayers : {4}, minPlayersToStart : {2}, roundsPerGame : RoundsPerGame,
              roundTimeSec : RoundTimes, queueQuickStartSeconds : QuickStarts,
              inactiveKickSeconds : InactiveKicks]
    /\ queue = <<>>
    /\ \E roster \in Rosters, w \in {<<"a">>} :
          /\ rooms = [r \in {"r1"} |-> newRoom("r1", Entries(roster, 1), 1, w, cfg.roundsPerGame)]
          /\ userRooms = [u \in Users |->
                            IF includes(roster, u) THEN "r1" ELSE NoRoomId]
    /\ roomIndex = {"r1"}
    /\ usedIds = {"r1"}
    /\ pc = [p \in Procs |-> "idle"]
    /\ loc = [p \in Procs |-> LocInit]
    /\ out = {}
    /\ client = NoClient
    /\ awarded = [n \in RoundsPerGame |-> 0]
    /\ tracked = TRUE
    /\ obs = {"round-ended", "skipped"}
    /\ words = WORDS
    /\ budget = MaxReqs
    /\ reqs = 0

NextRoom ==
    \/ \E u \in Users, r \in RoomIds, x \in GuessTexts : GuessStart(u, r, x)
    \/ \E u \in Users : GuessTxn(u)
    \/ \E u \in Users : GuessExec(u)
    \/ \E u \in Users, w \in words : GuessAdvance(u, w)
    \/ \E u \in Users, r \in RoomIds : AdvanceStart(u, r)
    \/ \E u \in Users : AdvanceTxn(u)
    \/ \E u \in Users : AdvanceExec(u)
    \/ \E u \in Users, w \in words : AdvanceAdvance(u, w)
    \/ \E u \in Users, r \in RoomIds : LeaveStart(u, r)
    \/ \E u \in Users : LeaveGone(u)
    \/ \E u \in Users : LeaveUnindex(u)
    \/ \E u \in Users : LeaveClear(u)
    \/ \E u \in Users : LeaveDelete(u)
    \/ \E u \in Users, w \in words : LeaveAdvance(u, w)
    \/ \E u \in Users : LeaveSave(u)
    \/ \E u \in Users : PingStart(u)
    \/ \E u \in Users : PingLoad(u)
    \/ \E u \in Users : PingSave(u)
    \/ Tick

SpecRoom == InitRoom /\ [][NextRoom]_vars

\* ------------------------------------------------------------ properties of a room in play
\* the handler of u took its step
Stepped(u, from, to) == pc[u] = from /\ pc'[u] = to

\* C1 (as stated): for every round number, of the correct guesses judged for that round at
\* most one commits an award.
C1_OneAwardPerRound == \A n \in DOMAIN awarded : awarded[n] <= 1

\* C4: every stored room with status playing has 1 <= roundNumber <= maxRounds.
C4_RoundWithinMax ==
    \A r \in DOMAIN rooms :
        rooms[r].status = "playing" =>
            (1 <= rooms[r].roundNumber /\ rooms[r].roundNumber <= rooms[r].maxRounds)

C4_Witness ==
    \E r \in DOMAIN rooms :
        /\ rooms[r].status = "playing"
        /\ rooms[r].roundNumber = 2
        /\ rooms[r].maxRounds = 2
        /\ RoundEnded(r, "time") \in out

\* C5: an advanceOrEndRound step on a room snapshot stores the room as ended exactly when
\* the snapshot's roundNumber >= maxRounds, and otherwise as playing with roundNumber one
\* higher; and a stored room is ended only with roundNumber = maxRounds.
C5_AdvanceStep(u) ==
    LET s == loc[u].snap
        r == loc[u].room
    IN /\ r \in DOMAIN rooms'
       /\ (rooms'[r].status = "ended") <=> (s.roundNumber >= s.maxRounds)
       /\ rooms'[r].status # "ended" =>
             (rooms'[r].status = "playing" /\ rooms'[r].roundNumber = s.roundNumber + 1)
       /\ rooms'[r].status = "ended" => rooms'[r].roundNumber = s.roundNumber

C5_EndedAtMax ==
    \A r \in DOMAIN rooms :
        rooms[r].status = "ended" => rooms[r].roundNumber = rooms[r].maxRounds

C5_AdvanceOrEnd ==
    /\ []C5_EndedAtMax
    /\ [][\A u \in Users :
            (\/ Stepped(u, "guess_adv", "idle")
             \/ Stepped(u, "adv_adv", "idle")
             \/ Stepped(u, "leave_adv", "idle")) => C5_AdvanceStep(u)]_vars

C5_Witness ==
    \E r \in DOMAIN rooms :
        /\ rooms[r].status = "ended"
        /\ rooms[r].maxRounds = 2
        /\ rooms[r].roundNumber = 2
        /\ \E m \in out : m.type = "round-ended"

\* C6: an advance transaction that reads the room as resolved (roundResolvedAt set) or as
\* no longer playing ends there: it writes no room, no index entry, and sends no
\* round-ended message.
C6_AdvanceNoOp ==
    [][\A u \in Users :
          (/\ pc[u] = "adv_txn"
           /\ pc'[u] # "adv_txn"
           /\ loc[u].room \in DOMAIN rooms
           /\ u \in DOMAIN rooms[loc[u].room].players
           /\ (rooms[loc[u].room].roundResolvedAt # 0 \/
               rooms[loc[u].room].status # "playing"))
          => (/\ pc'[u] = "idle"
              /\ rooms' = rooms
              /\ roomIndex' = roomIndex
              /\ userRooms' = userRooms
              /\ \A m \in out' : m.type # "round-ended")]_vars

C6_Witness ==
    \E u \in Users, r \in DOMAIN rooms :
        /\ Skipped(u, r, "advance") \in out
        /\ pc[u] = "idle"
        /\ (rooms[r].roundResolvedAt # 0 \/ rooms[r].status # "playing")

\* C9: the commit of a correct guess raises the guesser's score by 10 and the drawer's by
\* 3, changes no other score and no membership, and the advanceOrEndRound that follows
\* stores the next round, or the ended room when the round was the last.
C9_Commit(u) ==
    LET r == loc[u].room
        old == rooms[r].players
        new == rooms'[r].players
        d == rooms[r].drawerUserId
    IN /\ DOMAIN new = DOMAIN old
       /\ d # u
       /\ d \in DOMAIN old
       /\ new[u].score = old[u].score + 10
       /\ new[d].score = old[d].score + 3
       /\ \A o \in (DOMAIN old) \ {u, d} : new[o].score = old[o].score

C9_Advance(u) ==
    LET r == loc[u].room
        s == loc[u].snap
    IN /\ r \in DOMAIN rooms'
       /\ rooms'[r].players = s.players
       /\ IF s.roundNumber = s.maxRounds
          THEN rooms'[r].status = "ended"
          ELSE rooms'[r].status = "playing" /\ rooms'[r].roundNumber = s.roundNumber + 1

C9_GuessScores ==
    [][\A u \in Users :
          /\ Stepped(u, "guess_exec", "guess_adv") => C9_Commit(u)
          /\ Stepped(u, "guess_adv", "idle") => C9_Advance(u)]_vars

C9_Witness ==
    \E r \in DOMAIN rooms, g \in Users, d \in Users :
        /\ RoundEnded(r, "guessed") \in out
        /\ g \in DOMAIN rooms[r].players
        /\ d \in DOMAIN rooms[r].players
        /\ rooms[r].players[g].score = 10
        /\ rooms[r].players[d].score = 3
        /\ \A o \in (DOMAIN rooms[r].players) \ {g, d} : rooms[r].players[o].score = 0
        /\ rooms[r].status = "playing"
        /\ rooms[r].roundNumber = 2

\* C10: a leave that finds fewer than 2 members left clears the index entries of the
\* leaver and of every remaining member and deletes the room record; no stored room has
\* fewer than 2 members.
C10_NoLonelyRoom == \A r \in DOMAIN rooms : Len(rooms[r].order) >= 2

C10_LeaveDeletes ==
    /\ []C10_NoLonelyRoom
    /\ [][\A u \in Users :
            Stepped(u, "leave_clear", "idle") =>
                /\ Len(loc[u].snap.order) < 2
                /\ loc[u].room \notin DOMAIN rooms'
                /\ loc[u].room \notin roomIndex'
                /\ userRooms'[u] = NoRoomId
                /\ \A i \in 1..Len(loc[u].snap.order) :
                      userRooms'[loc[u].snap.order[i]] = NoRoomId]_vars

C10_Witness ==
    /\ "r1" \notin DOMAIN rooms
    /\ \A u \in Users : userRooms[u] = NoRoomId /\ pc[u] = "idle"
    /\ RoundEnded("r1", "left") \notin out
    /\ reqs = 2

\* C15: an advance transaction that reads a playing, unresolved room whose deadline has
\* not passed (now < roundEndsAt) ends there and writes nothing: roundNumber, drawer,
\* word, roundResolvedAt and status stay as they are, and no round-ended is sent.
C15_EarlyAdvanceNoOp ==
    [][\A u \in Users :
          (/\ pc[u] = "adv_txn"
           /\ pc'[u] # "adv_txn"
           /\ loc[u].room \in DOMAIN rooms
           /\ u \in DOMAIN rooms[loc[u].room].players
           /\ rooms[loc[u].room].status = "playing"
           /\ rooms[loc[u].room].roundResolvedAt = 0
           /\ now < rooms[loc[u].room].roundEndsAt)
          => (/\ pc'[u] = "idle"
              /\ rooms' = rooms
              /\ roomIndex' = roomIndex
              /\ \A m \in out' : m.type # "round-ended")]_vars

C15_Witness ==
    \E u \in Users, r \in DOMAIN rooms :
        /\ Skipped(u, r, "advance") \in out
        /\ pc[u] = "idle"
        /\ rooms[r].status = "playing"
        /\ rooms[r].roundResolvedAt = 0
        /\ now < rooms[r].roundEndsAt

\* C16: when the drawer has left a playing room and at least 2 members remain, the
\* handler sends round-ended with reason left and stores the room without the leaver and
\* with every remaining score as it read it: ended when roundNumber >= maxRounds, and
\* otherwise in the next round with a drawer from the remaining members.
C16_DrawerLeft ==
    [][\A u \in Users :
          Stepped(u, "leave_adv", "idle") =>
              LET s == loc[u].snap
                  r == loc[u].room
              IN /\ RoundEnded(r, "left") \in out'
                 /\ r \in DOMAIN rooms'
                 /\ u \notin DOMAIN rooms'[r].players
                 /\ rooms'[r].players = s.players
                 /\ rooms'[r].order = s.order
                 /\ Len(rooms'[r].order) >= 2
                 /\ IF s.roundNumber >= s.maxRounds
                    THEN /\ rooms'[r].status = "ended"
                         /\ rooms'[r].roundResolvedAt # 0
                    ELSE /\ rooms'[r].status = "playing"
                         /\ rooms'[r].roundNumber = s.roundNumber + 1
                         /\ rooms'[r].roundResolvedAt = 0
                         /\ rooms'[r].drawerUserId \in DOMAIN rooms'[r].players
                         /\ includes(rooms'[r].order, rooms'[r].drawerUserId)]_vars

C16_Witness ==
    \E r \in DOMAIN rooms :
        /\ RoundEnded(r, "left") \in out
        /\ rooms[r].status = "playing"
        /\ rooms[r].roundNumber = 2
        /\ Len(rooms[r].order) = 2
        /\ "u1" \notin DOMAIN rooms[r].players
        /\ rooms[r].drawerUserId = "u2"
        /\ \A o \in DOMAIN rooms[r].players : rooms[r].players[o].score = 0

\* C23: the gate and the award are stored by one write. The transaction's read stores
\* nothing, a lost exec stores nothing, and the commit sets roundResolvedAt, records the
\* guesser and raises the scores together; a stored playing room that records a guesser
\* has roundResolvedAt set and that guesser's award.
C23_GateWithAward ==
    \A r \in DOMAIN rooms :
        (rooms[r].status = "playing" /\ rooms[r].guessedCorrectUserIds # <<>>) =>
            /\ rooms[r].roundResolvedAt # 0
            /\ \A i \in 1..Len(rooms[r].guessedCorrectUserIds) :
                  LET g == rooms[r].guessedCorrectUserIds[i] IN
                  g \in DOMAIN rooms[r].players => rooms[r].players[g].score >= GuessAward

C23_CommitStep(u) ==
    LET r == loc[u].room
        old == rooms[r]
        new == rooms'[r]
        d == old.drawerUserId
    IN /\ old.roundResolvedAt = 0 /\ new.roundResolvedAt # 0
       /\ ~includes(old.guessedCorrectUserIds, u)
       /\ new.guessedCorrectUserIds = Append(old.guessedCorrectUserIds, u)
       /\ new.players[u].score = old.players[u].score + GuessAward
       /\ (d \in DOMAIN old.players) => new.players[d].score = old.players[d].score + DrawerAward
       /\ new.roundNumber = old.roundNumber /\ new.status = "playing"

C23_AtomicAward ==
    /\ []C23_GateWithAward
    /\ [][\A u \in Users :
             /\ (pc[u] = "guess_txn" /\ pc'[u] # "guess_txn") => rooms' = rooms
             /\ (pc[u] = "guess_exec" /\ pc'[u] \in {"guess_txn", "idle"}) => rooms' = rooms
             /\ Stepped(u, "guess_exec", "guess_adv") => C23_CommitStep(u)]_vars

C23_Witness ==
    \E u \in Users, r \in DOMAIN rooms :
        /\ pc[u] = "guess_adv"
        /\ loc[u].room = r
        /\ rooms[r].status = "playing"
        /\ rooms[r].roundResolvedAt # 0
        /\ rooms[r].guessedCorrectUserIds = <<u>>
        /\ rooms[r].players[u].score = GuessAward
        /\ rooms[r].players[rooms[r].drawerUserId].score = DrawerAward

\* ------------------------------------------------------------ a post with no room yet
\* the queues a post can hold at time 1 with every handler idle: empty, or the users
\* who joined at time 0 and could not be matched then
StartQueues(c) ==
    {<<>>} \cup
    (IF c.maxPlayers = 4 THEN {Entries(<<"u1", "u2", "u3">>, 0)}
     ELSE IF c.minPlayersToStart = 3 THEN {Entries(<<"u1", "u2">>, 0)}
     ELSE {})

InitMatch ==
    /\ now = 1
    /\ cfg \in [maxPlayers : MaxPlayersCfg, minPlayersToStart : MinPlayersCfg,
                roundsPerGame : {1}, roundTimeSec : RoundTimes,
                queueQuickStartSeconds : QuickStarts, inactiveKickSeconds : InactiveKicks]
    /\ queue \in StartQueues(cfg)
    /\ rooms = <<>>
    /\ userRooms = [u \in Users |-> NoRoomId]
    /\ roomIndex = {}
    /\ usedIds = {}
    /\ pc = [p \in Procs |-> "idle"]
    /\ loc = [p \in Procs |-> LocInit]
    /\ out = {}
    /\ client = NoClient
    /\ awarded = [n \in RoundsPerGame |-> 0]
    /\ tracked = (queue # <<>>)
    /\ obs = {}
    /\ words = {<<"a">>}
    /\ budget = MaxMatchReqs
    /\ reqs = 0

NextMatch ==
    \/ \E u \in Users : JoinStart(u)
    \/ \E u \in Users : JoinCheck(u)
    \/ \E u \in Users : JoinHeal(u)
    \/ \E u \in Users : JoinUpsert(u)
    \/ \E u \in Users : JoinResult(u)
    \/ \E u \in Users : QueueLeave(u)
    \/ \E p \in Procs : MsPick(p)
    \/ \E p \in Procs : MsExec(p)
    \/ \E p \in Procs, rid \in RoomIds, w \in words : MsSave(p, rid, w)
    \/ \E p \in Procs : MsIndex(p)
    \/ MmSweep
    \/ GcStart
    \/ GcVisit
    \/ GcClear
    \/ GcDelete
    \/ GcDone
    \/ ResetRooms
    \/ ResetKeys
    \/ \E u \in Users, r \in RoomIds : LeaveStart(u, r)
    \/ \E u \in Users : LeaveGone(u)
    \/ \E u \in Users : LeaveUnindex(u)
    \/ \E u \in Users : LeaveClear(u)
    \/ \E u \in Users : LeaveDelete(u)
    \/ \E u \in Users, w \in words : LeaveAdvance(u, w)
    \/ \E u \in Users : LeaveSave(u)
    \/ Tick

SpecMatch == InitMatch /\ [][NextMatch]_vars

\* ------------------------------------------------------------ properties of matchmaking
Quiet == \A p \in Procs : pc[p] = "idle"

\* C2 (as stated, and only in the states where no handler is running): every user-room
\* index entry names a stored room whose players contain the user.
C2_IndexNamesRoom ==
    Quiet => \A u \in Users :
                userRooms[u] # NoRoomId =>
                    /\ userRooms[u] \in DOMAIN rooms
                    /\ u \in DOMAIN rooms[userRooms[u]].players

\* C3 (as stated): a match start picks at least the configured minimum and at most the
\* configured maximum number of players.
C3_PickWithinConfigured ==
    \A p \in Procs :
        pc[p] = "ms_save" =>
            /\ Len(loc[p].picked) <= cfg.maxPlayers
            /\ Len(loc[p].picked) >= cfg.minPlayersToStart

\* a playing room whose deadline has passed and that nobody has resolved
Expired(room, t) ==
    /\ room.status = "playing"
    /\ room.roundResolvedAt = 0
    /\ room.roundEndsAt # 0
    /\ t >= room.roundEndsAt

\* C7 (as stated): when a run of the periodic sweep ends, no playing room is left
\* unresolved whose deadline had passed when the run began.
C7_SweepAdvances ==
    [][(pc[Cron] \in {"ms_pick", "ms_exec", "ms_index"} /\ pc'[Cron] = "idle")
          => \A r \in DOMAIN rooms' : ~Expired(rooms'[r], loc[Cron].at)]_vars

Joined(u) == userRooms[u] # NoRoomId \/ findIndex(queue, u) > 0

Fresh(t) == {i \in 1..Len(queue) : queue[i].lastSeen >= t - inactiveKickSeconds}

IsOldest(e, S) == \A i \in S : queue[i].joinedAt >= e.joinedAt

\* C11: a match pick commits only on the queue it read: at the commit the stored queue,
\* minus its stale entries, is still the picked entries followed by the remaining ones,
\* the commit stores exactly the remaining ones, and no picked user is left in the queue;
\* so of two evaluations that read the same queue only one commits.
C11_PickCommitsOnReadQueue ==
    [][\A p \in Procs :
          Stepped(p, "ms_exec", "ms_save") =>
              /\ loc[p].picked \o loc[p].remaining =
                     staleFilter(queue, loc[p].t - inactiveKickSeconds)
              /\ queue' = loc[p].remaining
              /\ \A i \in 1..Len(loc[p].picked) :
                     findIndex(queue', loc[p].picked[i].userId) = 0
              /\ \A q \in Procs \ {p} :
                     pc[q] = "ms_exec" => ~tryExec(loc', q, QueueKey)]_vars

C11_Witness ==
    \E p \in Procs, q \in Procs :
        /\ p # q
        /\ pc[p] = "ms_save"
        /\ pc[q] = "ms_exec"
        /\ loc[q].watch = Dirty
        /\ loc[q].picked = loc[p].picked

\* C12: a match pick evaluation goes on to remove entries exactly when, counting the
\* non-stale entries, size >= minimum and (size >= capacity or the oldest of them has
\* waited at least the quick-start timeout); otherwise it returns to its caller; either
\* way the evaluation itself leaves the queue as it is.
C12_PickIffReady ==
    [][\A p \in Procs :
          (pc[p] = "ms_pick" /\ pc'[p] # "ms_pick") =>
              LET t == IF loc[p].attempt = 0 THEN now ELSE loc[p].t
                  S == Fresh(t)
                  n == Cardinality(S)
                  ready == /\ n >= minPlayersToStart
                           /\ \/ n >= maxPlayers
                              \/ \E i \in S : /\ IsOldest(queue[i], S)
                                              /\ t - queue[i].joinedAt >= quickStartSeconds
              IN /\ queue' = queue
                 /\ ready <=> pc'[p] = "ms_exec"
                 /\ ~ready <=> pc'[p] = Return(p)]_vars

C12_Witness ==
    \E p \in Procs :
        /\ pc[p] = "ms_exec"
        /\ maxPlayers = 4
        /\ Len(loc[p].picked) = 3
        /\ loc[p].remaining = <<>>
        /\ loc[p].t - loc[p].picked[1].joinedAt >= quickStartSeconds

\* C13: a committed pick takes min(capacity, size) of the non-stale entries, none of them
\* newer than an entry it leaves, in joinedAt order, and leaves the others in the queue in
\* the order they had.
C13_FifoRoster ==
    [][\A p \in Procs :
          Stepped(p, "ms_exec", "ms_save") =>
              LET S == Fresh(loc[p].t)
                  P == loc[p].picked
              IN /\ Len(P) = Min2(maxPlayers, Cardinality(S))
                 /\ \A i \in 1..Len(P) : \E j \in S : queue[j] = P[i]
                 /\ \A i \in 1..Len(P), j \in 1..Len(P) :
                        i < j => P[i].joinedAt <= P[j].joinedAt
                 /\ \A i \in 1..Len(P), j \in 1..Len(queue') :
                        P[i].joinedAt <= queue'[j].joinedAt
                 /\ queue' = SelectSeq(queue,
                        LAMBDA e : /\ e.lastSeen >= loc[p].t - inactiveKickSeconds
                                   /\ \A i \in 1..Len(P) : P[i].userId # e.userId)]_vars

C13_Witness ==
    \E p \in Procs :
        /\ pc[p] = "ms_save"
        /\ Len(loc[p].picked) = 2
        /\ Len(queue) = 1
        /\ loc[p].picked[1].joinedAt < loc[p].picked[2].joinedAt
        /\ loc[p].picked[2].joinedAt <= queue[1].joinedAt

\* ------------------------------------------------------------ a room in play, every answer and
\* every broadcast observed
DrawPoints == {1, 2}
ApiKinds == {"response", "round-ended", "skipped", "chat", "room-state", "state-response",
             "drawer-response", "draw", "canvas-clear"}

InitApi ==
    /\ now = 1
    /\ cfg \in [maxPlayers : {4}, minPlayersToStart : {2}, roundsPerGame : RoundsPerGame,
              roundTimeSec : RoundTimes, queueQuickStartSeconds : QuickStarts,
              inactiveKickSeconds : InactiveKicks]
    /\ queue = <<>>
    /\ \E roster \in Rosters, w \in {<<"a">>} :
          /\ rooms = [r \in {"r1"} |-> newRoom("r1", Entries(roster, 1), 1, w, cfg.roundsPerGame)]
          /\ userRooms = [u \in Users |->
                            IF includes(roster, u) THEN "r1" ELSE NoRoomId]
    /\ roomIndex = {"r1"}
    /\ usedIds = {"r1"}
    /\ pc = [p \in Procs |-> "idle"]
    /\ loc = [p \in Procs |-> LocInit]
    /\ out = {}
    /\ client = NoClient
    /\ awarded = [n \in RoundsPerGame |-> 0]
    /\ tracked = TRUE
    /\ obs = ApiKinds
    /\ words = WORDS
    /\ budget = MaxApiReqs
    /\ reqs = 0

NextApi ==
    \/ \E u \in Users, r \in RoomIds, x \in GuessTexts : GuessStart(u, r, x)
    \/ \E u \in Users : GuessTxn(u)
    \/ \E u \in Users : GuessExec(u)
    \/ \E u \in Users, w \in words : GuessAdvance(u, w)
    \/ \E u \in Users, r \in RoomIds : AdvanceStart(u, r)
    \/ \E u \in Users : AdvanceTxn(u)
    \/ \E u \in Users : AdvanceExec(u)
    \/ \E u \in Users, w \in words : AdvanceAdvance(u, w)
    \/ \E u \in Users, r \in RoomIds : LeaveStart(u, r)
    \/ \E u \in Users : LeaveGone(u)
    \/ \E u \in Users : LeaveUnindex(u)
    \/ \E u \in Users : LeaveClear(u)
    \/ \E u \in Users : LeaveDelete(u)
    \/ \E u \in Users, w \in words : LeaveAdvance(u, w)
    \/ \E u \in Users : LeaveSave(u)
    \/ \E u \in Users, r \in RoomIds : StateGet(u, r)
    \/ \E u \in Users, r \in RoomIds, n \in DrawPoints, endStroke \in BOOLEAN :
          Draw(u, r, n, endStroke)
    \/ \E u \in Users, r \in RoomIds : Clear(u, r)
    \/ Tick

SpecApi == InitApi /\ [][NextApi]_vars

\* ------------------------------------------------------------ properties of the answers and
\* the broadcasts
\* the guess handler ends here with this answer: nothing stored, nothing awarded, no
\* round resolved
Rejected(u, codes) ==
    /\ pc'[u] = "idle"
    /\ rooms' = rooms
    /\ roomIndex' = roomIndex
    /\ awarded' = awarded
    /\ \E code \in codes : Resp(u, code) \in out'
    /\ \A m \in out' : m.type \notin {"round-ended", "room-state"}

\* C14: a guess is turned down with the room as it was and no score awarded when the room
\* it reads has the caller as drawer or not as a player (403) or is not playing (400 at
\* the first read, an ok that changes nothing inside the transaction), and a missing room
\* gives 404.
C14_GuessRejected ==
    [][\A u \in Users, r \in RoomIds :
          /\ (\E x \in GuessTexts : GuessStart(u, r, x)) =>
                IF r \notin DOMAIN rooms THEN Rejected(u, {404}) /\ out' = {Resp(u, 404)}
                ELSE /\ (u \notin DOMAIN rooms[r].players \/ rooms[r].drawerUserId = u)
                           => Rejected(u, {403}) /\ out' = {Resp(u, 403)}
                     /\ (rooms[r].status # "playing")
                           => Rejected(u, {400, 403}) /\ \A m \in out' : m.type = "response"
          /\ (pc[u] = "guess_txn" /\ pc'[u] # "guess_txn" /\ loc[u].room = r) =>
                IF r \notin DOMAIN rooms THEN Rejected(u, {404})
                ELSE /\ (u \notin DOMAIN rooms[r].players \/ rooms[r].drawerUserId = u)
                           => Rejected(u, {403})
                     /\ (rooms[r].status # "playing") => Rejected(u, {200, 403})]_vars

\* a member who is not the drawer has guessed in an ended room and got 400
C14_Witness ==
    \E u \in Users :
        /\ Resp(u, 400) \in out
        /\ "r1" \in DOMAIN rooms
        /\ rooms["r1"].status = "ended"
        /\ u \in DOMAIN rooms["r1"].players
        /\ \E o \in DOMAIN rooms["r1"].players : rooms["r1"].players[o].score > 0

\* C17: no room-state message on a room's channel carries the word: its word field is
\* absent and its mask is no word of the pool, whatever the room's status and drawer.
C17_BroadcastHidesWord ==
    \A m \in out : m.type = "room-state" =>
        /\ m.state.word = NoWord
        /\ m.state.wordMask \notin WORDS
        /\ (m.room \in DOMAIN rooms /\ rooms[m.room].word # NoWord)
              => m.state.wordMask # rooms[m.room].word

C17_Witness ==
    \E m \in out :
        /\ m.type = "room-state"
        /\ m.state.status = "playing"
        /\ m.state.roundNumber = 2
        /\ m.state.drawerUserId \in Users
        /\ m.room \in DOMAIN rooms
        /\ rooms[m.room].word \in WORDS
        /\ m.state.wordMask = <<"_">>

\* C18: the state query answers 200 only to a player of the room; the answer holds the
\* word exactly when the caller is the room's drawer, any other player gets the mask
\* alone, and a caller who is not a player of an existing room gets 403 and no state.
C18_StateQuery ==
    \A m \in out : m.type = "state-response" =>
        LET r == m.room
            u == m.to
        IN /\ m.code = 200 =>
                /\ r \in DOMAIN rooms
                /\ u \in DOMAIN rooms[r].players
                /\ m.state.word # NoWord => rooms[r].drawerUserId = u
                /\ rooms[r].drawerUserId = u => m.state.word = rooms[r].word
                /\ rooms[r].drawerUserId # u =>
                      /\ m.state.word = NoWord
                      /\ m.state.wordMask \notin WORDS
                      /\ m.state.wordMask = maskWord(rooms[r].word)
           /\ (r \in DOMAIN rooms /\ u \notin DOMAIN rooms[r].players) =>
                m.code = 403 /\ m.state = NoState
           /\ m.code = 403 => r \in DOMAIN rooms /\ u \notin DOMAIN rooms[r].players
           /\ m.code = 404 <=> r \notin DOMAIN rooms

C18_Witness ==
    \E m \in out :
        /\ m.type = "state-response" /\ m.code = 200
        /\ m.state.status = "playing"
        /\ m.state.drawerUserId # m.to
        /\ m.state.word = NoWord /\ m.state.wordMask = <<"_">>
        /\ m.state.roundNumber = 2

\* C19: a draw or canvas-clear broadcast comes from the room's current drawer only; a
\* caller who is not the drawer of the room gets 403 and nothing is broadcast.
C19_DrawerOnly ==
    \A m \in out :
        /\ m.type \in {"draw", "canvas-clear"} =>
              /\ m.room \in DOMAIN rooms
              /\ rooms[m.room].drawerUserId = m.from
              /\ DrawerResponse(m.from, m.room,
                                IF m.type = "draw" THEN "draw" ELSE "clear", 200) \in out
        /\ (m.type = "drawer-response" /\ m.room \in DOMAIN rooms) =>
              /\ rooms[m.room].drawerUserId # m.to =>
                    /\ m.code = 403
                    /\ \A n \in out : n.type \notin {"draw", "canvas-clear"}
              /\ m.code = 403 => rooms[m.room].drawerUserId # m.to

C19_Witness ==
    \E m \in out :
        /\ m.type = "drawer-response" /\ m.code = 403 /\ m.handler = "clear"
        /\ m.room \in DOMAIN rooms
        /\ rooms[m.room].status = "playing"
        /\ rooms[m.room].roundNumber = 2
        /\ m.to \in DOMAIN rooms[m.room].players
        /\ rooms[m.room].drawerUserId # m.to

\* ------------------------------------------------------------ channel names
IdChars == {"a", "Z", "7", "_", "-", " "}

RECURSIVE StringsUpTo(_)
StringsUpTo(n) ==
    IF n = 0 THEN {<<>>}
    ELSE StringsUpTo(n - 1) \cup
         {Append(s, c) : s \in {t \in StringsUpTo(n - 1) : Len(t) = n - 1}, c \in IdChars}

Ids(postId, id) == [type |-> "ids", postId |-> postId, id |-> id]
Channels(postId, id) ==
    [type |-> "channels", postId |-> postId, id |-> id,
     room |-> roomChannel(postId, id), user |-> userChannel(postId, id)]

InitChan ==
    /\ now = 1
    /\ cfg \in [maxPlayers : {4}, minPlayersToStart : {2}, roundsPerGame : {1},
              roundTimeSec : RoundTimes, queueQuickStartSeconds : QuickStarts,
              inactiveKickSeconds : InactiveKicks]
    /\ queue = <<>>
    /\ rooms = <<>>
    /\ userRooms = [u \in Users |-> NoRoomId]
    /\ roomIndex = {}
    /\ usedIds = {}
    /\ pc = [p \in Procs |-> "idle"]
    /\ loc = [p \in Procs |-> LocInit]
    /\ \E postId \in StringsUpTo(MaxIdLen), id \in StringsUpTo(MaxIdLen) :
          out = {Ids(postId, id)}
    /\ client = NoClient
    /\ awarded = [n \in RoundsPerGame |-> 0]
    /\ tracked = FALSE
    /\ obs = {"ids", "channels"}
    /\ words = WORDS
    /\ budget = 0
    /\ reqs = 0

\* the channel of the room and the channel of the user are named for the ids of a request
ChannelNames ==
    /\ \E m \in out :
          /\ m.type = "ids"
          /\ Emit({Channels(m.postId, m.id)})
    /\ UNCHANGED <<now, cfg, queue, rooms, roomIndex, userRooms, usedIds, pc, loc, awarded,
                   tracked, obs, words, budget, reqs>>

NextChan == ChannelNames

SpecChan == InitChan /\ [][NextChan]_vars

SafeChars == Letters \cup Digits \cup {"_"}

\* name is raw with every character outside the safe set turned into an underscore
Sanitized(raw, name) ==
    /\ Len(name) = Len(raw)
    /\ \A i \in 1..Len(name) :
          /\ name[i] \in SafeChars
          /\ raw[i] \in SafeChars => name[i] = raw[i]
          /\ raw[i] \notin SafeChars => name[i] = "_"

\* C20: for every post id, room id and user id the room channel and the user channel
\* hold letters, digits and underscores only; every other character of room-<post>-<room>
\* and u-<post>-<user> is there as an underscore, none is dropped, and the names are the
\* ones the same ids give again.
C20_ChannelNames ==
    \A m \in out : m.type = "channels" =>
        /\ Sanitized(<<"r", "o", "o", "m", "-">> \o m.postId \o <<"-">> \o m.id, m.room)
        /\ Sanitized(<<"u", "-">> \o m.postId \o <<"-">> \o m.id, m.user)
        /\ m.room = roomChannel(m.postId, m.id)
        /\ m.user = userChannel(m.postId, m.id)

C20_Witness ==
    \E m \in out :
        /\ m.type = "channels"
        /\ m.postId = <<"a", "-">>
        /\ m.id = <<" ", "7">>
        /\ m.room = <<"r", "o", "o", "m", "_", "a", "_", "_", "_", "7">>
        /\ m.user = <<"u", "_", "a", "_", "_", "_", "7">>

\* C21: a guess, advance or leave request for a room by a user who is not a player of it
\* is answered 403 and ends there, with the room record and the user-room index as they
\* were.
C21_NonPlayerRejected ==
    [][\A u \in Users, r \in RoomIds :
          (/\ r \in DOMAIN rooms
           /\ u \notin DOMAIN rooms[r].players
           /\ \/ \E x \in GuessTexts : GuessStart(u, r, x)
              \/ AdvanceStart(u, r)
              \/ LeaveStart(u, r))
          => (/\ Resp(u, 403) \in out'
              /\ pc'[u] = "idle"
              /\ rooms' = rooms
              /\ userRooms' = userRooms)]_vars

\* ------------------------------------------------------------ a room in play, where the
\* round-ended send of guess and advance can fail
\* realtime.send rejects: the handler's catch answers 400, advanceOrEndRound is not called
GuessSendFails(u) ==
    /\ pc[u] = "guess_adv"
    /\ UNCHANGED <<now, cfg, queue, rooms, roomIndex, userRooms, usedIds, awarded, tracked, obs, words, budget, reqs>>
    /\ Emit({Resp(u, 400)})
    /\ pc' = [pc EXCEPT ![u] = "idle"]
    /\ loc' = Finish(u, loc)

AdvanceSendFails(u) ==
    /\ pc[u] = "adv_adv"
    /\ UNCHANGED <<now, cfg, queue, rooms, roomIndex, userRooms, usedIds, awarded, tracked, obs, words, budget, reqs>>
    /\ Emit({Resp(u, 400)})
    /\ pc' = [pc EXCEPT ![u] = "idle"]
    /\ loc' = Finish(u, loc)

NextFault ==
    \/ \E u \in Users, r \in RoomIds, x \in GuessTexts : GuessStart(u, r, x)
    \/ \E u \in Users : GuessTxn(u)
    \/ \E u \in Users : GuessExec(u)
    \/ \E u \in Users, w \in words : GuessAdvance(u, w)
    \/ \E u \in Users : GuessSendFails(u)
    \/ \E u \in Users, r \in RoomIds : AdvanceStart(u, r)
    \/ \E u \in Users : AdvanceTxn(u)
    \/ \E u \in Users : AdvanceExec(u)
    \/ \E u \in Users, w \in words : AdvanceAdvance(u, w)
    \/ \E u \in Users : AdvanceSendFails(u)
    \/ Tick

SpecFault == InitRoom /\ [][NextFault]_vars

\* C22: a guess or advance handler that has committed roundResolvedAt ends with the room
\* advanced, whether or not its round-ended send succeeded: the stored room is ended or
\* in the next round, never playing with roundResolvedAt set.
C22_CommittedRoundAdvances ==
    [][\A u \in Users :
          (pc[u] \in {"guess_adv", "adv_adv"} /\ pc'[u] = "idle") =>
              LET r == loc[u].room IN
              /\ r \in DOMAIN rooms'
              /\ ~(rooms'[r].status = "playing" /\ rooms'[r].roundResolvedAt # 0)
              /\ \/ rooms'[r].status = "ended"
                 \/ rooms'[r].roundNumber = loc[u].snap.roundNumber + 1]_vars

\* ------------------------------------------------------------ a room in play under
\* contention: heartbeats keep rewriting the room key
InitRetry ==
    /\ now = 1
    /\ cfg \in [maxPlayers : {4}, minPlayersToStart : {2}, roundsPerGame : {2},
              roundTimeSec : RoundTimes, queueQuickStartSeconds : QuickStarts,
              inactiveKickSeconds : InactiveKicks]
    /\ queue = <<>>
    /\ \E roster \in {<<"u1", "u2">>}, w \in {<<"a">>} :
          /\ rooms = [r \in {"r1"} |-> newRoom("r1", Entries(roster, 1), 1, w, cfg.roundsPerGame)]
          /\ userRooms = [u \in Users |->
                            IF includes(roster, u) THEN "r1" ELSE NoRoomId]
    /\ roomIndex = {"r1"}
    /\ usedIds = {"r1"}
    /\ pc = [p \in Procs |-> "idle"]
    /\ loc = [p \in Procs |-> LocInit]
    /\ out = {}
    /\ client = NoClient
    /\ awarded = [n \in RoundsPerGame |-> 0]
    /\ tracked = TRUE
    /\ obs = {"exhausted", "response"}
    /\ words = {<<"a">>}
    /\ budget = MaxRetryReqs
    /\ reqs = 0

NextRetry ==
    \/ \E u \in Users, r \in RoomIds, x \in GuessTexts : GuessStart(u, r, x)
    \/ \E u \in Users : GuessTxn(u)
    \/ \E u \in Users : GuessExec(u)
    \/ \E u \in Users, w \in words : GuessAdvance(u, w)
    \/ \E u \in Users, r \in RoomIds : AdvanceStart(u, r)
    \/ \E u \in Users : AdvanceTxn(u)
    \/ \E u \in Users : AdvanceExec(u)
    \/ \E u \in Users, w \in words : AdvanceAdvance(u, w)
    \/ \E u \in Users : PingStart(u)
    \/ \E u \in Users : PingLoad(u)
    \/ \E u \in Users : PingSave(u)
    \/ Tick

SpecRetry == InitRetry /\ [][NextRetry]_vars

\* C24: a guess or advance whose exec is lost tries again with the room untouched, at
\* most MAX_QUEUE_TRANSACTION_RETRIES attempts in all; when the last attempt is lost the
\* handler answers ok, stores nothing and ends.
C24_AttemptsBounded ==
    \A u \in Users : loc[u].attempt \in 0..(MAX_QUEUE_TRANSACTION_RETRIES - 1)

C24_LostExec(u, exec, txn, handler) ==
    /\ Stepped(u, exec, txn) =>
          /\ loc'[u].attempt = loc[u].attempt + 1
          /\ rooms' = rooms
    /\ Stepped(u, exec, "idle") =>
          /\ loc[u].attempt = MAX_QUEUE_TRANSACTION_RETRIES - 1
          /\ rooms' = rooms
          /\ roomIndex' = roomIndex
          /\ awarded' = awarded
          /\ out' = {Exhausted(u, loc[u].room, handler), Resp(u, 200)}
          /\ loc'[u] = LocInit

C24_BoundedRetry ==
    /\ []C24_AttemptsBounded
    /\ [][\A u \in Users :
             /\ C24_LostExec(u, "guess_exec", "guess_txn", "guess")
             /\ C24_LostExec(u, "adv_exec", "adv_txn", "advance")]_vars

C24_Witness ==
    \E u \in Users :
        /\ Exhausted(u, "r1", "guess") \in out
        /\ Resp(u, 200) \in out
        /\ pc[u] = "idle"
        /\ rooms["r1"].status = "playing"
        /\ rooms["r1"].roundResolvedAt = 0
        /\ rooms["r1"].players[u].score = 0
        /\ reqs = 6

\* ------------------------------------------------------------ the queue operations attempt
\* by attempt: no room yet, two users queued, the queue key under contention
\* the non-atomic path after the last lost attempt of an upsert or a removal
FellBack(p, op) == [type |-> "fallback", to |-> p, op |-> op]

\* queueUpsertAtomic, one attempt: WATCH, read, the new queue on the local copy
UpsertRead(u) ==
    /\ pc[u] = "join_upsert"
    /\ UNCHANGED <<now, cfg, queue, rooms, roomIndex, userRooms, usedIds, awarded, tracked, obs,
                   words, budget, reqs>>
    /\ Emit({})
    /\ pc' = [pc EXCEPT ![u] = "upsert_exec"]
    /\ loc' = [loc EXCEPT ![u].watch = QueueKey,
                          ![u].remaining = queueUpsert(queue, u, loc[u].t, inactiveKickSeconds)]

\* txn.set(queueKey, queue); tryExec(txn); then maybeStartMatchForPost
UpsertExec(u) ==
    /\ pc[u] = "upsert_exec"
    /\ UNCHANGED <<now, cfg, rooms, roomIndex, userRooms, usedIds, awarded, tracked, obs, words,
                   budget, reqs>>
    /\ Emit({})
    /\ IF tryExec(loc, u, QueueKey)
       THEN /\ queue' = loc[u].remaining
            /\ pc' = [pc EXCEPT ![u] = "ms_pick"]
            /\ loc' = [Unwatch(loc, QueueKey) EXCEPT ![u] = LocInit]
       ELSE /\ UNCHANGED queue
            /\ IF retriesLeft(loc[u].attempt)
               THEN /\ pc' = [pc EXCEPT ![u] = "join_upsert"]
                    /\ loc' = [loc EXCEPT ![u].attempt = @ + 1, ![u].watch = NoKey,
                                          ![u].remaining = <<>>]
               ELSE /\ pc' = [pc EXCEPT ![u] = "upsert_load"]
                    /\ loc' = [loc EXCEPT ![u].watch = NoKey, ![u].remaining = <<>>]

\* the fallback: loadQueue and the new queue on the local copy
UpsertLoad(u) ==
    /\ pc[u] = "upsert_load"
    /\ UNCHANGED <<now, cfg, queue, rooms, roomIndex, userRooms, usedIds, awarded, tracked, obs,
                   words, budget, reqs>>
    /\ Emit({})
    /\ pc' = [pc EXCEPT ![u] = "upsert_save"]
    /\ loc' = [loc EXCEPT ![u].remaining =
                             queueUpsert(queue, u, loc[u].t, inactiveKickSeconds)]

\* the fallback: saveQueue; then maybeStartMatchForPost
UpsertSave(u) ==
    /\ pc[u] = "upsert_save"
    /\ UNCHANGED <<now, cfg, rooms, roomIndex, userRooms, usedIds, awarded, tracked, obs, words,
                   budget, reqs>>
    /\ queue' = loc[u].remaining
    /\ Emit({FellBack(u, "upsert")})
    /\ pc' = [pc EXCEPT ![u] = "ms_pick"]
    /\ loc' = [Unwatch(loc, QueueKey) EXCEPT ![u] = LocInit]

\* POST /api/matchmaking/leave
RemoveStart(u) ==
    /\ pc[u] = "idle"
    /\ Accept
    /\ UNCHANGED <<now, cfg, queue, rooms, roomIndex, userRooms, usedIds, awarded, tracked, obs,
                   words, budget>>
    /\ Emit({})
    /\ pc' = [pc EXCEPT ![u] = "remove_read"]
    /\ loc' = [loc EXCEPT ![u] = LocInit]

\* queueRemoveUserAtomic, one attempt: WATCH, read, the new queue on the local copy
RemoveRead(u) ==
    /\ pc[u] = "remove_read"
    /\ UNCHANGED <<now, cfg, queue, rooms, roomIndex, userRooms, usedIds, awarded, tracked, obs,
                   words, budget, reqs>>
    /\ Emit({})
    /\ pc' = [pc EXCEPT ![u] = "remove_exec"]
    /\ loc' = [loc EXCEPT ![u].watch = QueueKey, ![u].remaining = withoutUser(queue, u)]

RemoveExec(u) ==
    /\ pc[u] = "remove_exec"
    /\ UNCHANGED <<now, cfg, rooms, roomIndex, userRooms, usedIds, awarded, tracked, obs, words,
                   budget, reqs>>
    /\ IF tryExec(loc, u, QueueKey)
       THEN /\ queue' = loc[u].remaining
            /\ Emit({Resp(u, 200)})
            /\ pc' = [pc EXCEPT ![u] = "idle"]
            /\ loc' = Finish(u, Unwatch(loc, QueueKey))
       ELSE /\ UNCHANGED queue
            /\ Emit({})
            /\ IF retriesLeft(loc[u].attempt)
               THEN /\ pc' = [pc EXCEPT ![u] = "remove_read"]
                    /\ loc' = [loc EXCEPT ![u].attempt = @ + 1, ![u].watch = NoKey,
                                          ![u].remaining = <<>>]
               ELSE /\ pc' = [pc EXCEPT ![u] = "remove_load"]
                    /\ loc' = [loc EXCEPT ![u].watch = NoKey, ![u].remaining = <<>>]

\* the fallback: loadQueue without the caller
RemoveLoad(u) ==
    /\ pc[u] = "remove_load"
    /\ UNCHANGED <<now, cfg, queue, rooms, roomIndex, userRooms, usedIds, awarded, tracked, obs,
                   words, budget, reqs>>
    /\ Emit({})
    /\ pc' = [pc EXCEPT ![u] = "remove_save"]
    /\ loc' = [loc EXCEPT ![u].remaining = withoutUser(queue, u)]

\* the fallback: saveQueue, and the answer
RemoveSave(u) ==
    /\ pc[u] = "remove_save"
    /\ UNCHANGED <<now, cfg, rooms, roomIndex, userRooms, usedIds, awarded, tracked, obs, words,
                   budget, reqs>>
    /\ queue' = loc[u].remaining
    /\ Emit({FellBack(u, "remove"), Resp(u, 200)})
    /\ pc' = [pc EXCEPT ![u] = "idle"]
    /\ loc' = Finish(u, Unwatch(loc, QueueKey))

\* /internal/cron/mm-sweep: now = Date.now(), staleCutoff
SweepStart ==
    /\ pc[Cron] = "idle"
    /\ tracked
    /\ Accept
    /\ UNCHANGED <<now, cfg, queue, rooms, roomIndex, userRooms, usedIds, awarded, tracked, obs,
                   words, budget>>
    /\ Emit({})
    /\ pc' = [pc EXCEPT ![Cron] = "filter_read"]
    /\ loc' = [loc EXCEPT ![Cron] = [LocInit EXCEPT !.at = now]]

\* queueFilterStaleAtomic, one attempt: WATCH, read, the filtered queue on the local copy
FilterRead ==
    /\ pc[Cron] = "filter_read"
    /\ UNCHANGED <<now, cfg, queue, rooms, roomIndex, userRooms, usedIds, awarded, tracked, obs,
                   words, budget, reqs>>
    /\ Emit({})
    /\ pc' = [pc EXCEPT ![Cron] = "filter_exec"]
    /\ loc' = [loc EXCEPT ![Cron].watch = QueueKey,
                          ![Cron].remaining =
                              staleFilter(queue, loc[Cron].at - inactiveKickSeconds)]

\* tryExec(txn); after the last lost attempt it returns false and nothing is written; then
\* maybeStartMatchForPost
FilterExec ==
    /\ pc[Cron] = "filter_exec"
    /\ UNCHANGED <<now, cfg, rooms, roomIndex, userRooms, usedIds, awarded, tracked, obs, words,
                   budget, reqs>>
    /\ Emit({})
    /\ IF tryExec(loc, Cron, QueueKey)
       THEN /\ queue' = loc[Cron].remaining
            /\ pc' = [pc EXCEPT ![Cron] = "ms_pick"]
            /\ loc' = [Unwatch(loc, QueueKey) EXCEPT
                          ![Cron] = [LocInit EXCEPT !.at = loc[Cron].at]]
       ELSE /\ UNCHANGED queue
            /\ IF retriesLeft(loc[Cron].attempt)
               THEN /\ pc' = [pc EXCEPT ![Cron] = "filter_read"]
                    /\ loc' = [loc EXCEPT ![Cron].attempt = @ + 1, ![Cron].watch = NoKey,
                                          ![Cron].remaining = <<>>]
               ELSE /\ pc' = [pc EXCEPT ![Cron] = "ms_pick"]
                    /\ loc' = [loc EXCEPT ![Cron] = [LocInit EXCEPT !.at = loc[Cron].at]]

InitQueue ==
    /\ now = 1
    /\ cfg \in [maxPlayers : {4}, minPlayersToStart : {2}, roundsPerGame : {1},
              roundTimeSec : RoundTimes, queueQuickStartSeconds : QuickStarts,
              inactiveKickSeconds : InactiveKicks]
    /\ queue = Entries(<<"u1", "u2">>, 0)
    /\ rooms = <<>>
    /\ userRooms = [u \in Users |-> NoRoomId]
    /\ roomIndex = {}
    /\ usedIds = {}
    /\ pc = [p \in Procs |-> "idle"]
    /\ loc = [p \in Procs |-> LocInit]
    /\ out = {}
    /\ client = NoClient
    /\ awarded = [n \in RoundsPerGame |-> 0]
    /\ tracked = TRUE
    /\ obs = {"fallback"}
    /\ words = {<<"a">>}
    /\ budget = MaxRetryReqs
    /\ reqs = 0

\* who asks to join and who asks to leave the queue
Joiners == {"u1"}
Leavers == {"u2"}

NextQueue ==
    \/ \E u \in Joiners : JoinStart(u)
    \/ \E u \in Joiners : JoinCheck(u)
    \/ \E u \in Joiners : UpsertRead(u)
    \/ \E u \in Joiners : UpsertExec(u)
    \/ \E u \in Joiners : UpsertLoad(u)
    \/ \E u \in Joiners : UpsertSave(u)
    \/ \E u \in Joiners : JoinResult(u)
    \/ \E u \in Leavers : RemoveStart(u)
    \/ \E u \in Leavers : RemoveRead(u)
    \/ \E u \in Leavers : RemoveExec(u)
    \/ \E u \in Leavers : RemoveLoad(u)
    \/ \E u \in Leavers : RemoveSave(u)
    \/ SweepStart
    \/ FilterRead
    \/ FilterExec
    \/ \E p \in Procs : MsPick(p)
    \/ \E p \in Procs : MsExec(p)
    \/ \E p \in Procs, rid \in RoomIds, w \in words : MsSave(p, rid, w)
    \/ \E p \in Procs : MsIndex(p)

SpecQueue == InitQueue /\ [][NextQueue]_vars

\* an upsert returns with the caller queued and a removal with the caller not queued,
\* through the transaction or, after the last lost attempt, through the fallback write
UpsertRemoveEffect ==
    /\ \A u \in Users :
          /\ (pc[u] \in {"upsert_exec", "upsert_save"} /\ pc'[u] = "ms_pick") =>
                /\ queue' = loc[u].remaining
                /\ findIndex(queue', u) > 0
          /\ (pc[u] \in {"remove_exec", "remove_save"} /\ pc'[u] = "idle") =>
                /\ queue' = loc[u].remaining
                /\ findIndex(queue', u) = 0
          /\ (Stepped(u, "upsert_exec", "upsert_load") \/ Stepped(u, "remove_exec", "remove_load")) =>
                /\ loc[u].attempt = MAX_QUEUE_TRANSACTION_RETRIES - 1
                /\ queue' = queue
    /\ \A p \in Procs : loc'[p].attempt \in 0..(MAX_QUEUE_TRANSACTION_RETRIES - 1)

\* C25 as stated: every queue operation takes effect before it returns, the pick and the
\* stale filter included: a pick that reached its exec goes on to store the room, and the
\* sweep's filter has written its queue when the pick follows.
C25_EveryOpTakesEffect ==
    [][/\ UpsertRemoveEffect
       /\ \A p \in Procs :
             (pc[p] = "ms_exec" /\ pc'[p] \notin {"ms_exec", "ms_pick"}) => pc'[p] = "ms_save"
       /\ Stepped(Cron, "filter_exec", "ms_pick") => queue' = loc[Cron].remaining]_vars

\* C25, amended: upsert and removal retry up to the bound and then fall back to a
\* non-atomic write that takes effect; the pick and the stale filter retry up to the bound
\* and then give up with the queue as it is.
C25_UpsertRemoveFallBack ==
    [][/\ UpsertRemoveEffect
       /\ \A p \in Procs :
             (pc[p] = "ms_exec" /\ pc'[p] \notin {"ms_exec", "ms_pick"}) =>
                \/ pc'[p] = "ms_save" /\ queue' = loc[p].remaining
                \/ /\ pc'[p] = Return(p)
                   /\ loc[p].attempt = MAX_QUEUE_TRANSACTION_RETRIES - 1
                   /\ queue' = queue
       /\ Stepped(Cron, "filter_exec", "ms_pick") =>
             \/ queue' = loc[Cron].remaining /\ tryExec(loc, Cron, QueueKey)
             \/ /\ loc[Cron].attempt = MAX_QUEUE_TRANSACTION_RETRIES - 1
                /\ queue' = queue]_vars

\* an upsert has fallen back and the caller is queued
C25_Witness ==
    /\ FellBack("u1", "upsert") \in out
    /\ findIndex(queue, "u1") > 0
    /\ pc["u1"] = "ms_pick"

\* C26: the sweep goes on to delete the room it visits exactly when the room it loaded has
\* fewer than 2 members or was last updated before the sweep's clock reading by more than
\* the timeout; it then clears the index entry of each member in turn, deletes that room
\* only when none is left to clear, and writes no other room and no other index entry.
C26_GcSweep ==
    [][/\ pc[Cron] = "gc_visit" /\ loc[Cron].rids # <<>> /\ loc'[Cron] # loc[Cron] =>
             LET r == Head(loc[Cron].rids)
                 shouldDelete == /\ r \in DOMAIN rooms
                                 /\ \/ Len(rooms[r].order) < 2
                                    \/ loc[Cron].t - rooms[r].updatedAt > 0
             IN  /\ (pc'[Cron] = "gc_clear") <=> shouldDelete
                 /\ pc'[Cron] = "gc_clear" =>
                       loc'[Cron].room = r /\ loc'[Cron].todo = rooms[r].order
                 /\ pc'[Cron] = "gc_visit" => loc'[Cron].rids = Tail(loc[Cron].rids)
                 /\ rooms' = rooms /\ roomIndex' = roomIndex /\ userRooms' = userRooms
       /\ Stepped(Cron, "gc_clear", "gc_clear") /\ loc'[Cron] # loc[Cron] =>
             /\ loc[Cron].todo # <<>>
             /\ loc'[Cron].todo = Tail(loc[Cron].todo)
             /\ userRooms' = [userRooms EXCEPT ![Head(loc[Cron].todo)] = NoRoomId]
             /\ rooms' = rooms /\ roomIndex' = roomIndex
       /\ Stepped(Cron, "gc_clear", "gc_visit") =>
             /\ loc[Cron].todo = <<>>
             /\ DOMAIN rooms' = (DOMAIN rooms) \ {loc[Cron].room}
             /\ \A q \in DOMAIN rooms' : rooms'[q] = rooms[q]
             /\ loc[Cron].room \notin roomIndex'
             /\ userRooms' = userRooms]_vars

\* the sweep has deleted the only room, inactive since the match, and nothing else ran
C26_Witness ==
    /\ pc[Cron] = "gc_visit"
    /\ loc[Cron].rids = <<>>
    /\ reqs = 2
    /\ usedIds # {}
    /\ DOMAIN rooms = {}
    /\ roomIndex = {}
    /\ \A u \in Users : userRooms[u] = NoRoomId

\* C27: a join never answers "matched" with a room whose stored status is ended; a player
\* of an ended room who joins goes on to the queue.
C27_EndedRoomNotRejoined ==
    [][\A u \in Users :
          Stepped(u, "join_check", "idle") => rooms[loc[u].room].status # "ended"]_vars

\* ------------------------------------------------------------ the viewer's page (connectRoom)
NoIdentity == "no-identity"

\* connectRoom, up to connectChannel: the refs are reset and nothing is applied yet
ConnectedClient(u, r, id) ==
    [userId |-> u, roomId |-> r, identity |-> id, lastRoomStateUpdatedAt |-> 0,
     roomState |-> NoState, drawerStateFetchInFlight |-> FALSE, hasConnectedOnce |-> FALSE,
     initialFetch |-> "todo", channel |-> {}, responses |-> {}]

\* what GET /api/room/:roomId/state answers the page: the state, or an error (NoState)
fetchedState(u, r) ==
    IF r \notin DOMAIN rooms THEN NoState
    ELSE LET room == withRoomDefaults(rooms[r]) IN
         IF u \notin DOMAIN room.players THEN NoState ELSE publicState(room, u)

applyRoomState(c, next) ==
    [c EXCEPT !.lastRoomStateUpdatedAt =
                  IF next.updatedAt > @ THEN next.updatedAt ELSE @,
              !.roomState = next]

\* fetchPersonalizedRoomState, up to the request: one fetch in flight at a time
fetchPersonalizedRoomState(c) ==
    IF c.drawerStateFetchInFlight THEN c
    ELSE [c EXCEPT !.drawerStateFetchInFlight = TRUE,
                   !.responses = @ \cup {[kind |-> "personal",
                                          state |-> fetchedState(c.userId, c.roomId)]}]

\* a step of the page writes nothing on the server
PageStep ==
    /\ client.roomId # NoRoomId
    /\ out' = {}
    /\ UNCHANGED <<now, cfg, queue, rooms, roomIndex, userRooms, usedIds, pc, loc, tracked,
                   obs, words, budget, awarded>>

\* onConnect: the first connection is noted, a reconnection fetches the state again
ClientOnConnect ==
    /\ PageStep
    /\ IF client.hasConnectedOnce
       THEN /\ Accept
            /\ ~client.drawerStateFetchInFlight
            /\ client' = fetchPersonalizedRoomState(client)
       ELSE /\ UNCHANGED reqs
            /\ client' = [client EXCEPT !.hasConnectedOnce = TRUE]

\* the fetch at the end of connectRoom, up to the request
ClientInitialFetch ==
    /\ PageStep
    /\ client.initialFetch = "todo"
    /\ UNCHANGED reqs
    /\ client' = [client EXCEPT !.initialFetch = "sent",
                                !.responses = @ \cup {[kind |-> "initial",
                                     state |-> fetchedState(client.userId, client.roomId)]}]

\* the answer of a fetch arrives: applyRoomState(st), or the catch on an error
ClientFetched(resp) ==
    /\ PageStep
    /\ resp \in client.responses
    /\ UNCHANGED reqs
    /\ LET applied == IF resp.state = NoState THEN client
                      ELSE applyRoomState(client, resp.state)
       IN  client' = [applied EXCEPT
                         !.responses = @ \ {resp},
                         !.drawerStateFetchInFlight =
                             IF resp.kind = "personal" THEN FALSE ELSE @]

\* onMessage of a room-state that is newer than the fence; the message stays in flight, so
\* it may arrive again, late, or never
ClientOnMessage(msg) ==
    /\ PageStep
    /\ msg \in client.channel
    /\ msg.state.updatedAt > client.lastRoomStateUpdatedAt
    /\ UNCHANGED reqs
    /\ IF client.identity = NoIdentity \/ msg.state.drawerUserId = client.identity
       THEN client' = fetchPersonalizedRoomState(client)
       ELSE client' = applyRoomState(client, msg.state)

InitView ==
    /\ now = 1
    /\ cfg \in [maxPlayers : {4}, minPlayersToStart : {2}, roundsPerGame : {2},
              roundTimeSec : RoundTimes, queueQuickStartSeconds : QuickStarts,
              inactiveKickSeconds : InactiveKicks]
    /\ queue = <<>>
    /\ \E roster \in Rosters, w \in {<<"a">>} :
          /\ rooms = [r \in {"r1"} |-> newRoom("r1", Entries(roster, 1), 1, w, cfg.roundsPerGame)]
          /\ userRooms = [u \in Users |->
                            IF includes(roster, u) THEN "r1" ELSE NoRoomId]
    /\ roomIndex = {"r1"}
    /\ usedIds = {"r1"}
    /\ pc = [p \in Procs |-> "idle"]
    /\ loc = [p \in Procs |-> LocInit]
    /\ out = {}
    /\ \E u \in Users, id \in {NoIdentity} \cup Users :
          /\ id \in {NoIdentity, u}
          /\ client = ConnectedClient(u, "r1", id)
    /\ awarded = [n \in RoundsPerGame |-> 0]
    /\ tracked = TRUE
    /\ obs = {}
    /\ words = {<<"a">>}
    /\ budget = MaxViewReqs
    /\ reqs = 0

NextView ==
    \/ \E u \in Users, r \in RoomIds, x \in GuessTexts : GuessStart(u, r, x)
    \/ \E u \in Users : GuessTxn(u)
    \/ \E u \in Users : GuessExec(u)
    \/ \E u \in Users, w \in words : GuessAdvance(u, w)
    \/ ClientOnConnect
    \/ ClientInitialFetch
    \/ \E resp \in client.responses : ClientFetched(resp)
    \/ \E msg \in client.channel : ClientOnMessage(msg)
    \/ Tick

SpecView == InitView /\ [][NextView]_vars

\* C28: the page never replaces the room state it holds by one with a smaller updatedAt,
\* whatever the order in which room-state messages and the answers of its fetches arrive.
C28_HeldStateNeverOlder ==
    [][(client.roomState # NoState /\ client'.roomState # NoState) =>
          client'.roomState.updatedAt >= client.roomState.updatedAt]_vars

\* C29: no step stores a room with a smaller roundNumber than the one stored before it.
C29_RoundNumberNeverDecreases ==
    [][\A r \in (DOMAIN rooms) \cap (DOMAIN rooms') :
          rooms'[r].roundNumber >= rooms[r].roundNumber]_vars

\* C30: no step stores a room as playing or waiting once it was stored as ended.
C30_EndedIsFinal ==
    [][\A r \in (DOMAIN rooms) \cap (DOMAIN rooms') :
          rooms[r].status = "ended" => rooms'[r].status = "ended"]_vars

\* C31: the stored queue holds at most one entry per userId, in every state the queue
\* operations reach, their fallback writes included.
C31_QueueUniquePerUser ==
    \A i, j \in 1..Len(queue) : queue[i].userId = queue[j].userId => i = j

\* a removal has written the queue through its fallback, and the other user is queued once
C31_Witness ==
    /\ FellBack("u2", "remove") \in out
    /\ Len(queue) = 1
    /\ queue[1].userId = "u1"

\* C32: the drawer of every stored room is unset or a member of its order and a key of
\* its players.
C32_DrawerIsMember ==
    \A r \in DOMAIN rooms :
        rooms[r].drawerUserId # NoUser =>
            /\ includes(rooms[r].order, rooms[r].drawerUserId)
            /\ rooms[r].drawerUserId \in DOMAIN rooms[r].players

\* the drawer u1 has left and the next round runs with a drawer among those who stayed
C32_Witness ==
    /\ "r1" \in DOMAIN rooms
    /\ rooms["r1"].order = <<"u2", "u3">>
    /\ rooms["r1"].roundNumber = 2
    /\ rooms["r1"].drawerUserId = "u2"
    /\ "u1" \notin DOMAIN rooms["r1"].players

\* ------------------------------------------------------------ a game of three rounds
InitRound ==
    /\ now = 1
    /\ cfg \in [maxPlayers : {4}, minPlayersToStart : {2}, roundsPerGame : {3},
              roundTimeSec : RoundTimes, queueQuickStartSeconds : QuickStarts,
              inactiveKickSeconds : InactiveKicks]
    /\ queue = <<>>
    /\ \E roster \in Rosters, w \in {<<"a">>} :
          /\ rooms = [r \in {"r1"} |-> newRoom("r1", Entries(roster, 1), 1, w, cfg.roundsPerGame)]
          /\ userRooms = [u \in Users |->
                            IF includes(roster, u) THEN "r1" ELSE NoRoomId]
    /\ roomIndex = {"r1"}
    /\ usedIds = {"r1"}
    /\ pc = [p \in Procs |-> "idle"]
    /\ loc = [p \in Procs |-> LocInit]
    /\ out = {}
    /\ client = NoClient
    /\ awarded = [n \in RoundsPerGame |-> 0]
    /\ tracked = TRUE
    /\ obs = {}
    /\ words = {<<"a">>}
    /\ budget = MaxRoundReqs
    /\ reqs = 0

NextRound ==
    \/ \E u \in Users, r \in RoomIds : AdvanceStart(u, r)
    \/ \E u \in Users : AdvanceTxn(u)
    \/ \E u \in Users : AdvanceExec(u)
    \/ \E u \in Users, w \in words : AdvanceAdvance(u, w)
    \/ \E u \in Users, r \in RoomIds : LeaveStart(u, r)
    \/ \E u \in Users : LeaveGone(u)
    \/ \E u \in Users : LeaveUnindex(u)
    \/ \E u \in Users : LeaveClear(u)
    \/ \E u \in Users : LeaveDelete(u)
    \/ \E u \in Users, w \in words : LeaveAdvance(u, w)
    \/ \E u \in Users : LeaveSave(u)
    \/ Tick

SpecRound == InitRound /\ [][NextRound]_vars

\* the member one position after u in order, wrapping around at the end
Follower(order, u) == order[((indexOf(order, u) + 1) % Len(order)) + 1]

\* C33: a step that starts the next round makes the follower of the current drawer the
\* drawer; when the step is the leave of the drawer, the new drawer is the member who
\* followed the drawer in the order the drawer was still part of.
C33_NextDrawerFollows ==
    [][\A u \in Users :
          /\ (Stepped(u, "adv_adv", "idle") /\ loc[u].room \in DOMAIN rooms'
              /\ rooms'[loc[u].room].status = "playing") =>
                rooms'[loc[u].room].drawerUserId =
                    Follower(loc[u].snap.order, loc[u].snap.drawerUserId)
          /\ (Stepped(u, "leave_adv", "idle") /\ loc[u].room \in DOMAIN rooms
              /\ rooms'[loc[u].room].status = "playing"
              /\ includes(rooms[loc[u].room].order, u)
              /\ filterOut(rooms[loc[u].room].order, u) = loc[u].snap.order) =>
                rooms'[loc[u].room].drawerUserId = Follower(rooms[loc[u].room].order, u)]_vars

\* C34: every stored room that is playing has a word, a drawer and a deadline, and every
\* stored room that is ended has none of the three.
C34_WordWhilePlaying ==
    \A r \in DOMAIN rooms :
        /\ rooms[r].status \in {"playing", "ended"}
        /\ rooms[r].status = "playing" =>
              /\ rooms[r].word # NoWord
              /\ rooms[r].drawerUserId # NoUser
              /\ rooms[r].roundEndsAt > 0
        /\ rooms[r].status = "ended" =>
              /\ rooms[r].word = NoWord
              /\ rooms[r].drawerUserId = NoUser
              /\ rooms[r].roundEndsAt = 0

\* the game of r1 has ended after a correct guess in its last round
C34_Witness ==
    /\ "r1" \in DOMAIN rooms
    /\ rooms["r1"].status = "ended"
    /\ rooms["r1"].word = NoWord
    /\ \E u \in Users : u \in DOMAIN rooms["r1"].players /\ rooms["r1"].players[u].score = GuessAward

\* C35: a guess that commits its award commits it in the round in which it was judged
\* correct: the room its transaction stores has the round number the guess was judged in.
C35_AwardInJudgedRound ==
    [][\A u \in Users :
          Stepped(u, "guess_exec", "guess_adv") =>
              rooms'[loc[u].room].roundNumber = loc[u].judged]_vars

\* C36: no user is a player of two stored rooms at once.
C36_OneRoomPerUser ==
    \A u \in Users : \A q, r \in DOMAIN rooms :
        (u \in DOMAIN rooms[q].players /\ u \in DOMAIN rooms[r].players) => q = r

\* C37: the write of a heartbeat leaves the stored room as it was but for the caller's
\* lastSeen and the room's updatedAt: status, round number, drawer, word, roundResolvedAt,
\* guessedCorrectUserIds, order, the set of players and every score are unchanged.
C37_HeartbeatFrame ==
    [][\A u \in Users :
          (Stepped(u, "ping_save", "idle") /\ loc[u].room \in DOMAIN rooms) =>
              LET old == rooms[loc[u].room]
                  new == rooms'[loc[u].room]
              IN  /\ new.status = old.status
                  /\ new.roundNumber = old.roundNumber
                  /\ new.drawerUserId = old.drawerUserId
                  /\ new.word = old.word
                  /\ new.roundResolvedAt = old.roundResolvedAt
                  /\ new.guessedCorrectUserIds = old.guessedCorrectUserIds
                  /\ new.order = old.order
                  /\ DOMAIN new.players = DOMAIN old.players
                  /\ \A p \in DOMAIN old.players : new.players[p].score = old.players[p].score]_vars

\* C38: a user who is not a player of a stored room is not a player of it, nor in its
\* order, after any step: nobody who left comes back.
C38_DepartedStaysOut ==
    [][\A r \in (DOMAIN rooms) \cap (DOMAIN rooms') : \A u \in Users :
          u \notin DOMAIN rooms[r].players =>
              /\ u \notin DOMAIN rooms'[r].players
              /\ ~includes(rooms'[r].order, u)]_vars

\* C39: a roomId that was issued and has no stored record gets no record again.
C39_DeletedStaysDeleted ==
    [][\A r \in usedIds : r \notin DOMAIN rooms => r \notin DOMAIN rooms']_vars

\* ------------------------------------------------------------ saveRoom and deleteRoom, call
\* by call: the room key is written first, then the room index is loaded, changed and saved
setRoomKey(room) ==
    rooms' = [r \in (DOMAIN rooms) \cup {room.roomId} |->
                 IF r = room.roomId THEN room ELSE rooms[r]]

delRoomKey(r) == rooms' = [q \in (DOMAIN rooms) \ {r} |-> rooms[q]]

\* the heartbeat's saveRoom: redis.set of the room key
PingSet(u) ==
    /\ pc[u] = "ping_save"
    /\ UNCHANGED <<now, cfg, queue, roomIndex, userRooms, usedIds, awarded, tracked, obs, words,
                   budget, reqs>>
    /\ setRoomKey(loc[u].snap)
    /\ Emit({})
    /\ pc' = [pc EXCEPT ![u] = "ping_idx_load"]
    /\ loc' = Unwatch(loc, loc[u].room)

\* loadRoomIndex; idx[room.roomId] = room.updatedAt
PingIndexLoad(u) ==
    /\ pc[u] = "ping_idx_load"
    /\ UNCHANGED <<now, cfg, queue, rooms, roomIndex, userRooms, usedIds, awarded, tracked, obs,
                   words, budget, reqs>>
    /\ Emit({})
    /\ pc' = [pc EXCEPT ![u] = "ping_idx_save"]
    /\ loc' = [loc EXCEPT ![u].idx = roomIndex \cup {loc[u].room}]

\* saveRoomIndex; res.json({ ok: true })
PingIndexSave(u) ==
    /\ pc[u] = "ping_idx_save"
    /\ UNCHANGED <<now, cfg, queue, rooms, userRooms, usedIds, awarded, tracked, obs, words,
                   budget, reqs>>
    /\ roomIndex' = loc[u].idx
    /\ Emit({Resp(u, 200)})
    /\ pc' = [pc EXCEPT ![u] = "idle"]
    /\ loc' = Finish(u, loc)

\* the leave's deleteRoom: redis.del of the room key
LeaveDel(u) ==
    /\ pc[u] = "leave_clear"
    /\ loc[u].todo = <<>>
    /\ UNCHANGED <<now, cfg, queue, roomIndex, userRooms, usedIds, awarded, tracked, obs, words,
                   budget, reqs>>
    /\ delRoomKey(loc[u].room)
    /\ Emit({})
    /\ pc' = [pc EXCEPT ![u] = "leave_idx_load"]
    /\ loc' = Unwatch(loc, loc[u].room)

\* loadRoomIndex; delete idx[roomId]
LeaveIndexLoad(u) ==
    /\ pc[u] = "leave_idx_load"
    /\ UNCHANGED <<now, cfg, queue, rooms, roomIndex, userRooms, usedIds, awarded, tracked, obs,
                   words, budget, reqs>>
    /\ Emit({})
    /\ pc' = [pc EXCEPT ![u] = "leave_idx_save"]
    /\ loc' = [loc EXCEPT ![u].idx = roomIndex \ {loc[u].room}]

\* saveRoomIndex; res.json({ ok: true })
LeaveIndexSave(u) ==
    /\ pc[u] = "leave_idx_save"
    /\ UNCHANGED <<now, cfg, queue, rooms, userRooms, usedIds, awarded, tracked, obs, words,
                   budget, reqs>>
    /\ roomIndex' = loc[u].idx
    /\ Emit({Resp(u, 200)})
    /\ pc' = [pc EXCEPT ![u] = "idle"]
    /\ loc' = Finish(u, loc)

InitIndex ==
    /\ now = 1
    /\ cfg \in [maxPlayers : {4}, minPlayersToStart : {2}, roundsPerGame : {2},
              roundTimeSec : RoundTimes, queueQuickStartSeconds : QuickStarts,
              inactiveKickSeconds : InactiveKicks]
    /\ queue = <<>>
    /\ \E roster \in {<<"u1", "u2">>}, w \in {<<"a">>} :
          /\ rooms = [r \in {"r1"} |-> newRoom("r1", Entries(roster, 1), 1, w, cfg.roundsPerGame)]
          /\ userRooms = [u \in Users |->
                            IF includes(roster, u) THEN "r1" ELSE NoRoomId]
    /\ roomIndex = {"r1"}
    /\ usedIds = {"r1"}
    /\ pc = [p \in Procs |-> "idle"]
    /\ loc = [p \in Procs |-> LocInit]
    /\ out = {}
    /\ client = NoClient
    /\ awarded = [n \in RoundsPerGame |-> 0]
    /\ tracked = TRUE
    /\ obs = {}
    /\ words = {<<"a">>}
    /\ budget = MaxIndexReqs
    /\ reqs = 0

NextIndex ==
    \/ \E u \in Users : PingStart(u)
    \/ \E u \in Users : PingLoad(u)
    \/ \E u \in Users : PingSet(u)
    \/ \E u \in Users : PingIndexLoad(u)
    \/ \E u \in Users : PingIndexSave(u)
    \/ \E u \in Users, r \in RoomIds : LeaveStart(u, r)
    \/ \E u \in Users : LeaveGone(u)
    \/ \E u \in Users : LeaveUnindex(u)
    \/ \E u \in Users : LeaveClear(u)
    \/ \E u \in Users : LeaveDel(u)
    \/ \E u \in Users : LeaveIndexLoad(u)
    \/ \E u \in Users : LeaveIndexSave(u)
    \/ Tick

SpecIndex == InitIndex /\ [][NextIndex]_vars

\* C40: when no handler is running, the room index lists exactly the roomIds that have a
\* stored room record.
C40_IndexMatchesRooms ==
    (\A p \in Procs : pc[p] = "idle") => roomIndex = DOMAIN rooms

====
